---- MODULE Spec2Model ----
(***************************************************************************)
(* Vox / vyxen_core: the session router (conversation.py), the circuit     *)
(* breaker (safety.py), the causal memory store (memory.py), the governor  *)
(* (governor.py), the cognition loop (cognition.py) with the adapter's     *)
(* queue producers (discord_adapter.py) and the action journal             *)
(* (action_journal.py), each as a state machine over a shared wall clock.  *)
(* Time is counted in whole seconds.                                       *)
(***************************************************************************)
EXTENDS Integers, Sequences, FiniteSets, TLC

VARIABLES
    clock,              \* the value time.time() returns now (non-decreasing)
    sessions,           \* SessionStore.sessions: insertion-ordered dict, key -> session object
    active_by_channel,  \* SessionStore.active_by_channel: (guild, channel) -> session object
    objs,               \* the live ConversationSession objects, by identity
    ret,                \* the last SessionStore call and what it returned
    breaker,            \* a CircuitBreaker: failures, tripped_until, reason
    b_ret,              \* the last CircuitBreaker call and what it returned
    b_reached,          \* history: some record_failure saw `threshold` failures in the window
    memory,             \* the CausalMemory object: flags, write timestamps, breaker
    db,                 \* the SQLite file: tables memory and user_important, its size
    warm_archive,       \* the lines of the warm archive
    threads,            \* where the interpret worker and the loop thread are
    commits,            \* history: memory writes committed at the last instant and at this one
    m_ret,              \* the last CausalMemory call and what it returned
    g_ret,              \* the last Governor call: its inputs and the decision returned
    running,            \* CognitionLoop.running
    state,              \* InternalState: safe_mode, overrun_note, watchdog_note
    safety,             \* SafetyStatus: last_overrun_reason, last_watchdog_reason, log_ingest_disabled
    tick_interval_override, \* CognitionLoop.tick_interval_override (None or tenths of a second)
    stimulus_queue,     \* the bounded asyncio.Queue of stimuli, oldest first
    action_queue,       \* the bounded asyncio.Queue of ActionIntent types, oldest first
    tick,               \* where the loop coroutine is, and the stimuli its tick still holds
    scheduled,          \* the follow-up tasks of the adapter: created, and waiting to enqueue
    c_ret,              \* the last step of the loop or of the adapter and what it did
    _entries,           \* ActionJournal._entries: user -> list of entries
    j_log,              \* history: records made, and per user those not popped, in order
    j_ret,              \* the last ActionJournal call and what it returned
    actions,            \* RateLimiter.actions: key -> list of grant times (a missing key: empty)
    l_log,              \* history: per key, the time of every allow() that returned True
    l_ret,              \* the last RateLimiter call and what it returned
    futures,            \* the run_in_executor futures of one _interpret call: strategy -> status
    i_ret,              \* the last _interpret call: what it cancelled and what _decide was given
    llm_calls_remaining, \* InternalState.llm_calls_remaining
    workers,            \* executor threads in SocialReality.interpret: where each is, what it recommended
    awaited,            \* the thread the loop awaits in _interpret; 0: none
    replies             \* reply intents recommended since the budget was last reset

sessionVars == <<sessions, active_by_channel, objs, ret>>
breakerVars == <<breaker, b_ret, b_reached>>
memoryVars == <<memory, db, warm_archive, threads, commits, m_ret>>
governorVars == <<g_ret>>
cognitionVars == <<running, state, safety, tick_interval_override, stimulus_queue,
                   action_queue, tick, scheduled, c_ret>>
journalVars == <<_entries, j_log, j_ret>>
limiterVars == <<actions, l_log, l_ret>>
poolVars == <<futures, i_ret, llm_calls_remaining, workers, awaited, replies>>
vars == <<clock, sessionVars, breakerVars, memoryVars, governorVars, cognitionVars,
          journalVars, limiterVars, poolVars>>
nonSessionVars == <<breakerVars, memoryVars, governorVars, cognitionVars, journalVars,
                    limiterVars, poolVars>>
nonBreakerVars == <<sessionVars, memoryVars, governorVars, cognitionVars, journalVars,
                    limiterVars, poolVars>>
nonMemoryVars == <<sessionVars, breakerVars, governorVars, cognitionVars, journalVars,
                    limiterVars, poolVars>>
nonGovernorVars == <<sessionVars, breakerVars, memoryVars, cognitionVars, journalVars,
                    limiterVars, poolVars>>
nonCognitionVars == <<sessionVars, breakerVars, governorVars, journalVars, limiterVars,
                     poolVars>>
nonJournalVars == <<sessionVars, breakerVars, memoryVars, governorVars, cognitionVars,
                   limiterVars, poolVars>>
nonLimiterVars == <<sessionVars, breakerVars, memoryVars, governorVars, cognitionVars,
                   journalVars, poolVars>>

----------------------------------------------------------------------------
(* Bounds of the exploration *)

MaxTime == 3        \* the clock stops advancing here
MaxCount == 3       \* largest message_count explored
ttl_seconds == 2    \* SessionStore(ttl_seconds=...)
BMaxTime == 12      \* the clock stops here in the breaker's runs
MaxFailures == 3    \* longest failure deque explored

----------------------------------------------------------------------------
(* Values *)

None == 0                       \* Python None for ids (users, channels, objects)
NoServer == ""                  \* a missing / falsy server_id
UserIds == {1, 2}
ChannelIds == {99}
ServerIds == {NoServer, "global"}

\* Message texts, one character per element (str).
Hi == <<"h", "i">>
VoxHi == <<" ", "V", "o", "x", ",", " ", "h", "i">>
HiVyxen == <<"h", "i", " ", "v", "y", "x", "e", "n">>

Msg(author_id, server_id, channel_id, mentions_bot, content) ==
    [type |-> "discord_message", author_id |-> author_id, server_id |-> server_id,
     channel_id |-> channel_id, mentions_bot |-> mentions_bot, content |-> content]

Stimuli ==
    { [type |-> "silence", author_id |-> None, server_id |-> NoServer,
       channel_id |-> None, mentions_bot |-> FALSE, content |-> << >>],
      Msg(None, NoServer, 99, TRUE, Hi),
      Msg(1, NoServer, None, TRUE, Hi),
      Msg(1, NoServer, None, FALSE, Hi) }
    \cup
    { Msg(u, g, 99, m[1], m[2]) :
        u \in UserIds, g \in {NoServer, "global"},
        m \in { <<TRUE, Hi>>, <<FALSE, << >> >>, <<FALSE, Hi>>,
                <<FALSE, VoxHi>>, <<FALSE, HiVyxen>> } }

\* guild_id = stimulus.context.get("server_id") or "global"
GuildOf(stim) == IF stim.server_id = NoServer THEN "global" ELSE stim.server_id

NoStim == [type |-> "none", author_id |-> None, server_id |-> NoServer,
           channel_id |-> None, mentions_bot |-> FALSE, content |-> << >>]

----------------------------------------------------------------------------
(* str helpers used by route_stimulus *)

lower(c) ==
    CASE c = "V" -> "v"
      [] c = "O" -> "o"
      [] c = "X" -> "x"
      [] c = "H" -> "h"
      [] OTHER -> c

RECURSIVE lstrip(_)
lstrip(s) == IF s # << >> /\ Head(s) = " " THEN lstrip(Tail(s)) ELSE s

RECURSIVE rstrip(_)
rstrip(s) ==
    IF s # << >> /\ s[Len(s)] = " " THEN rstrip(SubSeq(s, 1, Len(s) - 1)) ELSE s

strip_lower(s) ==
    LET t == rstrip(lstrip(s)) IN [i \in 1..Len(t) |-> lower(t[i])]

startswith(text, prefix) ==
    /\ Len(text) >= Len(prefix)
    /\ SubSeq(text, 1, Len(prefix)) = prefix

contains(text, sub) ==
    \E i \in 1..(Len(text) - Len(sub) + 1) : SubSeq(text, i, i + Len(sub) - 1) = sub

Vyxen == <<"v", "y", "x", "e", "n">>
Vox == <<"v", "o", "x">>

----------------------------------------------------------------------------
(* ConversationSession and the dict helpers *)

expired(s, now) == now >= s.expires_at

_key(user_id, guild_id, channel_id) == <<user_id, guild_id, channel_id>>

DictHas(d, k) == \E i \in 1..Len(d) : d[i].key = k

DictGet(d, k) ==
    IF DictHas(d, k) THEN d[CHOOSE i \in 1..Len(d) : d[i].key = k].obj ELSE None

DictPop(d, k) == SelectSeq(d, LAMBDA e : e.key # k)

DictSet(d, k, v) ==
    IF DictHas(d, k)
    THEN [i \in 1..Len(d) |-> IF d[i].key = k THEN [key |-> k, obj |-> v] ELSE d[i]]
    ELSE Append(d, [key |-> k, obj |-> v])

ChannelKeys == {"global"} \X ChannelIds

ObjIds == 1..(Cardinality(UserIds) * Cardinality(ChannelKeys) + Cardinality(ChannelKeys) + 1)

\* Objects no dict refers to any more are reclaimed.
Collect(d, abc, heap) ==
    LET live == ({d[i].obj : i \in 1..Len(d)} \cup {abc[ck] : ck \in ChannelKeys}) \ {None}
    IN  [id \in live |-> heap[id]]

FreshId(heap) == CHOOSE id \in ObjIds \ DOMAIN heap : \A j \in ObjIds \ DOMAIN heap : id <= j

----------------------------------------------------------------------------
(* SessionStore *)

NewSession(user_id, channel_id, guild_id, now) ==
    [user_id |-> user_id, channel_id |-> channel_id, guild_id |-> guild_id,
     session_start |-> now, last_interaction |-> now, active |-> TRUE,
     expires_at |-> now + ttl_seconds, message_count |-> 1]

\* a refresh that counts the message but leaves the expiry where it was
RefreshFixedExpiry(heap, id, now) ==
    [heap EXCEPT ![id].last_interaction = now,
                 ![id].message_count = @ + 1]

\* session.last_interaction = now; session.expires_at = now + ttl; message_count += 1
Refresh(heap, id, now) ==
    [heap EXCEPT ![id].last_interaction = now,
                 ![id].expires_at = now + ttl_seconds,
                 ![id].message_count = @ + 1]

\* expire_stale with its own clock reading `now`: the dict without the expired
\* entries, and the (session, "timeout") pairs in dict order.
expire_stale(d, heap, now) ==
    LET dead(e) == expired(heap[e.obj], now)
        alive(e) == ~dead(e)
        gone == SelectSeq(d, dead)
    IN  [sessions |-> SelectSeq(d, alive),
         ended |-> [i \in 1..Len(gone) |-> <<gone[i].obj, "timeout">>]]

AddressPrefixes ==
    {Vyxen, Vyxen \o <<",">>, Vyxen \o <<":">>, Vox, Vox \o <<",">>}

_looks_directed(text, session, heap, author_id, now) ==
    IF text = << >> THEN FALSE
    ELSE IF \E p \in AddressPrefixes : startswith(text, p) THEN TRUE
    ELSE IF contains(text, Vyxen) THEN TRUE
    ELSE IF /\ session # None
            /\ ~expired(heap[session], now)
            /\ heap[session].user_id = author_id THEN TRUE
    ELSE FALSE

\* Clearing the active session without testing expired(now).
ClearActiveAlways(d, abc, heap, channel_key, now) ==
    LET active == abc[channel_key] IN
    IF active # None
    THEN [sessions |-> DictPop(d, _key(heap[active].user_id, channel_key[1], channel_key[2])),
          abc |-> [abc EXCEPT ![channel_key] = None],
          active |-> None]
    ELSE [sessions |-> d, abc |-> abc, active |-> active]

\* "Clear expired active session if present"
ClearExpiredActive(d, abc, heap, channel_key, now) ==
    LET active == abc[channel_key] IN
    IF active # None /\ expired(heap[active], now)
    THEN [sessions |-> DictPop(d, _key(heap[active].user_id, channel_key[1], channel_key[2])),
          abc |-> [abc EXCEPT ![channel_key] = None],
          active |-> None]
    ELSE [sessions |-> d, abc |-> abc, active |-> active]

\* Supersede without sessions.pop(...): the prior session stays in `sessions`.
SupersedeNoPop(d, abc, heap, active, author_id, channel_key, ended) ==
    IF active # None /\ heap[active].user_id # author_id
    THEN [sessions |-> d,
          abc |-> [abc EXCEPT ![channel_key] = None],
          ended |-> Append(ended, <<active, "superseded">>),
          active |-> None]
    ELSE [sessions |-> d, abc |-> abc, ended |-> ended, active |-> active]

\* Supersede without ended.append(...): the prior session ends unreported.
SupersedeSilent(d, abc, heap, active, author_id, channel_key, ended) ==
    IF active # None /\ heap[active].user_id # author_id
    THEN [sessions |-> DictPop(d, _key(heap[active].user_id, channel_key[1], channel_key[2])),
          abc |-> [abc EXCEPT ![channel_key] = None],
          ended |-> ended,
          active |-> None]
    ELSE [sessions |-> d, abc |-> abc, ended |-> ended, active |-> active]

\* The prior session of another user is ended with reason "superseded".
Supersede(d, abc, heap, active, author_id, channel_key, ended) ==
    IF active # None /\ heap[active].user_id # author_id
    THEN [sessions |-> DictPop(d, _key(heap[active].user_id, channel_key[1], channel_key[2])),
          abc |-> [abc EXCEPT ![channel_key] = None],
          ended |-> Append(ended, <<active, "superseded">>),
          active |-> None]
    ELSE [sessions |-> d, abc |-> abc, ended |-> ended, active |-> active]

\* route_stimulus: `now` is the clock read on entry, `now2` the clock read
\* inside expire_stale (now2 >= now).
route_stimulus(stim, now, now2) ==
    LET swept == expire_stale(sessions, objs, now2)
        guild_id == GuildOf(stim)
        channel_key == <<guild_id, stim.channel_id>>
        out(d, abc, heap, routing, session, ended) ==
            [sessions |-> d, abc |-> abc, objs |-> heap,
             routing |-> routing, session |-> session, ended |-> ended]
    IN
    IF stim.type \notin {"discord_message", "attachment"}
    THEN out(swept.sessions, active_by_channel, objs, "system", None, swept.ended)
    ELSE IF stim.author_id = None \/ stim.channel_id = None
    THEN out(swept.sessions, active_by_channel, objs, "ambient", None, swept.ended)
    ELSE
    LET content == strip_lower(stim.content)
        c == ClearExpiredActive(swept.sessions, active_by_channel, objs, channel_key, now)
        key == _key(stim.author_id, guild_id, stim.channel_id)
        session == DictGet(c.sessions, key)
        detected_direct ==
            stim.mentions_bot \/ _looks_directed(content, session, objs, stim.author_id, now)
    IN
    IF detected_direct
    THEN LET s == Supersede(c.sessions, c.abc, objs, c.active, stim.author_id,
                            channel_key, swept.ended)
         IN  IF session # None /\ ~expired(objs[session], now)
             THEN out(s.sessions, [s.abc EXCEPT ![channel_key] = session],
                      Refresh(objs, session, now), "directed", session, s.ended)
             ELSE LET id == FreshId(objs) IN
                  out(DictSet(s.sessions, key, id), [s.abc EXCEPT ![channel_key] = id],
                      objs @@ (id :> NewSession(stim.author_id, stim.channel_id, guild_id, now)),
                      "directed", id, s.ended)
    ELSE IF c.active # None /\ objs[c.active].user_id = stim.author_id
    THEN out(c.sessions, c.abc, Refresh(objs, c.active, now), "directed", c.active,
             swept.ended)
    ELSE out(c.sessions, c.abc, objs, "ambient", None, swept.ended)

\* get(): the session under the key unless it has expired at the current time.
get(user_id, guild_id, channel_id, now) ==
    LET session == DictGet(sessions, _key(user_id, guild_id, channel_id)) IN
    IF session # None /\ expired(objs[session], now) THEN None ELSE session

\* Whether the stimulus addresses the system by mention or by name.
Addressed(stim) ==
    stim.mentions_bot \/ _looks_directed(strip_lower(stim.content), None, << >>, None, 0)

\* What a call was given and what it returned: (routing, session, ended).
Ret(op, stim, routing, session, ended) ==
    [op |-> op, type |-> stim.type, author_id |-> stim.author_id,
     guild_id |-> GuildOf(stim), channel_id |-> stim.channel_id,
     addressed |-> Addressed(stim), empty |-> (strip_lower(stim.content) = << >>),
     routing |-> routing, session |-> session, ended |-> ended]

----------------------------------------------------------------------------
(* CircuitBreaker.  A breaker is [failures, tripped_until, reason]; its        *)
(* parameters are [threshold, window_seconds, cooldown_seconds].  Every method *)
(* reads the clock on entry (`now`); the `tripped` property reads it again     *)
(* (`t2`, t2 >= now).                                                          *)

threshold == 2
window_seconds == 10
cooldown_seconds == 5
TestBreaker ==
    [threshold |-> threshold, window_seconds |-> window_seconds,
     cooldown_seconds |-> cooldown_seconds]

NewBreaker == [failures |-> << >>, tripped_until |-> 0, reason |-> ""]

\* @property tripped
tripped(b, t2) == t2 < b.tripped_until

\* while self.failures and now - self.failures[0] > window: popleft()
RECURSIVE popleft_old(_, _, _)
popleft_old(failures, window, now) ==
    IF failures # << >> /\ now - Head(failures) > window
    THEN popleft_old(Tail(failures), window, now)
    ELSE failures

_prune(b, P, now, t2) ==
    LET kept == [b EXCEPT !.failures = popleft_old(b.failures, P.window_seconds, now)]
    IN  IF tripped(kept, t2) /\ now >= kept.tripped_until
        THEN [kept EXCEPT !.failures = << >>, !.reason = ""]
        ELSE kept

\* allow() still refusing at the instant tripped_until (now <= tripped_until)
allow_inclusive(b, P, now, t2) ==
    LET pruned == _prune(b, P, now, t2)
    IN  [b |-> pruned, result |-> ~(now <= pruned.tripped_until)]

\* allow(): the breaker afterwards and the value returned
allow(b, P, now, t2) ==
    LET pruned == _prune(b, P, now, t2)
    IN  [b |-> pruned, result |-> ~(now < pruned.tripped_until)]

\* record_failure tripping one failure late (len > threshold)
record_failure_late(b, P, reason, now, t2) ==
    LET added == [b EXCEPT !.failures = Append(@, now), !.reason = reason]
        pruned == _prune(added, P, now, t2)
    IN  IF Len(pruned.failures) > P.threshold
        THEN [pruned EXCEPT !.tripped_until = now + P.cooldown_seconds]
        ELSE pruned

record_failure(b, P, reason, now, t2) ==
    LET added == [b EXCEPT !.failures = Append(@, now), !.reason = reason]
        pruned == _prune(added, P, now, t2)
    IN  IF Len(pruned.failures) >= P.threshold
        THEN [pruned EXCEPT !.tripped_until = now + P.cooldown_seconds]
        ELSE pruned

record_success(b, P, now, t2) ==
    LET pruned == _prune(b, P, now, t2)
    IN  IF pruned.failures = << >> THEN [pruned EXCEPT !.reason = ""] ELSE pruned

BRet(op, now, result) == [op |-> op, now |-> now, result |-> result]

BreakerIdle ==
    /\ breaker = NewBreaker
    /\ b_ret = BRet("init", 0, TRUE)
    /\ b_reached = FALSE

----------------------------------------------------------------------------
(* CausalMemory (memory.py).  `memory` is the Python object, `db` the SQLite *)
(* file, `warm_archive` the gzip archive.  A table is the sequence of its    *)
(* rows in rowid order; a row of table memory is [server_id, ts].            *)
(* user_important holds its keys, least recently updated first.              *)

memory_max_writes_per_second == 2       \* RuntimeConfig.memory_max_writes_per_second
memory_retention_limit == 2             \* RuntimeConfig.memory_retention_limit
memory_retention_window_seconds == 1    \* RuntimeConfig.memory_retention_window_seconds
hot_memory_row_cap == 1                 \* RuntimeConfig.hot_memory_row_cap
hot_rotation_chunk == 1                 \* RuntimeConfig.hot_rotation_chunk
MemoryTableLimit == 2                   \* memory_table_limits["memory"]
ImportantTableLimit == 1                \* memory_table_limits["user_important"]
MMaxTime == 2                           \* the clock stops here in the memory's runs
MaxLimit == 3                           \* largest fetch_recent limit explored

_table_limits == [memory |-> MemoryTableLimit, user_important |-> ImportantTableLimit]

\* CircuitBreaker("memory", threshold=5, window_seconds=60.0, cooldown_seconds=180.0)
MemoryBreaker == [threshold |-> 5, window_seconds |-> 60, cooldown_seconds |-> 180]

MemServers == {"global", "guild"}
ImportantKeys == {"quiet_mode"}
WriteOutcomes == {"ok", "locked"}   \* what the storage engine does to a write when it does not fail
FaultOutcomes == {"ok", "locked", "error", "count_fails"}   \* the same with engine failures
ReadOutcomes == {"ok", "error"}     \* what the storage engine does to a read

Min(a, b) == IF a <= b THEN a ELSE b
Max(a, b) == IF a >= b THEN a ELSE b

NewMemory ==
    [allow_writes |-> TRUE, disabled_due_to_size |-> FALSE,
     _write_timestamps |-> << >>, _breaker |-> NewBreaker]

NewDb == [memory |-> << >>, user_important |-> << >>, oversize |-> FALSE]

\* rows with the positions in S removed
RemoveAt(rows, S) ==
    LET F[i \in 0..Len(rows)] ==
            IF i = 0 THEN << >>
            ELSE IF i \in S THEN F[i - 1] ELSE Append(F[i - 1], rows[i])
    IN  F[Len(rows)]

\* SELECT id FROM memory ORDER BY ts ASC LIMIT n: the sets of positions the
\* query may return (rows of equal ts come in no specified order)
OldestIds(rows, n) ==
    {S \in SUBSET (1..Len(rows)) :
        /\ Cardinality(S) = Min(n, Len(rows))
        /\ \A i \in S, j \in (1..Len(rows)) \ S : rows[i].ts <= rows[j].ts}

\* SELECT id FROM memory ORDER BY ts DESC LIMIT n
NewestIds(rows, n) ==
    {S \in SUBSET (1..Len(rows)) :
        /\ Cardinality(S) = Min(n, Len(rows))
        /\ \A i \in S, j \in (1..Len(rows)) \ S : rows[i].ts >= rows[j].ts}

\* self._write_timestamps.popleft() while now - [0] > 1.0
RECURSIVE _prune_writes(_, _)
_prune_writes(stamps, now) ==
    IF stamps # << >> /\ now - Head(stamps) > 1
    THEN _prune_writes(Tail(stamps), now)
    ELSE stamps

_table_over_limit(d, table) == Len(d[table]) >= _table_limits[table]

\* _check_size_limit: the file size against memory_max_file_mb
_check_size_limit(m, d) ==
    IF d.oversize
    THEN [m EXCEPT !.disabled_due_to_size = TRUE, !.allow_writes = FALSE]
    ELSE [m EXCEPT !.disabled_due_to_size = FALSE]

\* _execute_write up to the rate check: the object afterwards and whether the
\* write goes on to open a connection
_execute_write_gate(m, now) ==
    IF ~m.allow_writes THEN [m |-> m, pass |-> FALSE]
    ELSE LET a == allow(m._breaker, MemoryBreaker, now, now)
             m1 == [m EXCEPT !._breaker = a.b]
         IN  IF ~a.result THEN [m |-> m1, pass |-> FALSE]
             ELSE LET m2 == [m1 EXCEPT !._write_timestamps = _prune_writes(@, now)]
                  IN  [m |-> m2,
                       pass |-> ~(Len(m2._write_timestamps) >= memory_max_writes_per_second)]

\* _execute_write from opening the connection on; `written` is the table as
\* writer(conn) leaves it, t2 the clock when the write has been committed.
\* outcome "locked" / "error": opening, writing or committing raises; outcome
\* "count_fails": only the SELECT COUNT(*) of _table_over_limit raises, which
\* makes it answer False
_execute_write_commit(m, d, table, written, outcome, t2) ==
    IF outcome = "locked" THEN [m |-> m, db |-> d, committed |-> FALSE]
    ELSE IF outcome = "error"
    THEN [m |-> [m EXCEPT !._breaker = record_failure(@, MemoryBreaker, "error", t2, t2)],
          db |-> d, committed |-> FALSE]
    ELSE IF outcome # "count_fails" /\ _table_over_limit(d, table)
    THEN [m |-> m, db |-> d, committed |-> FALSE]
    ELSE [m |-> [m EXCEPT !._write_timestamps = Append(@, t2),
                          !._breaker = record_success(@, MemoryBreaker, t2, t2)],
          db |-> [d EXCEPT ![table] = written], committed |-> TRUE]

_execute_write(m, d, table, written, outcome, now, t2) ==
    LET g == _execute_write_gate(m, now)
    IN  IF ~g.pass THEN [m |-> g.m, db |-> d, committed |-> FALSE]
        ELSE _execute_write_commit(g.m, d, table, written, outcome, t2)

\* the writer of record(): insert, keep the memory_retention_limit newest,
\* drop what is older than the retention window (tw: the clock read there)
record_writer(rows, server_id, ts, tw) ==
    LET inserted == Append(rows, [server_id |-> server_id, ts |-> ts])
    IN  {SelectSeq(RemoveAt(inserted, (1..Len(inserted)) \ S),
                   LAMBDA r : ~(r.ts < tw - memory_retention_window_seconds)) :
            S \in NewestIds(inserted, memory_retention_limit)}

\* the writer of save_important(): REPLACE INTO user_important
save_important_writer(keys, key) ==
    Append(SelectSeq(keys, LAMBDA k : k # key), key)

\* trimming one row too few (to_delete = total - cap - 1)
_enforce_table_limits_short(d) ==
    LET total == Len(d.memory)
        cap == hot_memory_row_cap
    IN  {[d EXCEPT !.memory = IF total > cap THEN RemoveAt(d.memory, S) ELSE d.memory] :
            S \in OldestIds(d.memory, Max(0, total - cap - 1))}

\* _enforce_table_limits: the tables it may leave
_enforce_table_limits(d) ==
    LET total == Len(d.memory)
        cap == hot_memory_row_cap
        count == Len(d.user_important)
        limit == _table_limits.user_important
        important == IF count > limit
                     THEN SubSeq(d.user_important, count - limit + 1, count)
                     ELSE d.user_important
    IN  {[d EXCEPT !.memory = IF total > cap THEN RemoveAt(d.memory, S) ELSE d.memory,
                   !.user_important = important] :
            S \in OldestIds(d.memory, Max(0, total - cap))}

\* _summarize_rows: one summary per row and one aggregate line
_summarize_rows(rows) ==
    LET summaries == [i \in 1..Len(rows) |->
                        [summary |-> FALSE, server_id |-> rows[i].server_id, ts |-> rows[i].ts]]
    IN  IF Len(rows) > 0
        THEN Append(summaries, [summary |-> TRUE, server_id |-> "", ts |-> 0])
        ELSE summaries

\* _rotate_old_records: the [db, archive, rotated] it may leave
_rotate_old_records(m, d, archive) ==
    LET total == Len(d.memory)
        cap == hot_memory_row_cap
        to_move == Min(hot_rotation_chunk, total - cap)
    IN  IF ~m.allow_writes \/ total <= cap
        THEN {[db |-> d, archive |-> archive, rotated |-> 0]}
        ELSE {[db |-> [d EXCEPT !.memory = RemoveAt(d.memory, S)],
               archive |-> archive \o _summarize_rows(RemoveAt(d.memory, (1..total) \ S)),
               rotated |-> Cardinality(S)] :
                 S \in OldestIds(d.memory, to_move)}

\* maintain(): the [m, db, archive, report] it may leave
maintain(m, d, archive) ==
    LET checked == _check_size_limit(m, d)
    IN  IF checked.disabled_due_to_size
        THEN {[m |-> checked, db |-> d, archive |-> archive,
               report |-> [rotated |-> 0, disabled |-> m.disabled_due_to_size]]}
        ELSE {[m |-> checked, db |-> r.db, archive |-> r.archive,
               report |-> [rotated |-> r.rotated, disabled |-> m.disabled_due_to_size]] :
                 r \in UNION {_rotate_old_records(checked, e, archive) :
                                 e \in _enforce_table_limits(d)}}

\* rows sorted by ts DESC (rows of equal ts in rowid order, as the index
\* idx_memory_server_ts yields them)
RECURSIVE OrderByTsDesc(_)
OrderByTsDesc(rows) ==
    IF rows = << >> THEN << >>
    ELSE LET i == CHOOSE i \in 1..Len(rows) :
                    /\ \A j \in 1..Len(rows) : rows[j].ts <= rows[i].ts
                    /\ \A j \in 1..(i - 1) : rows[j].ts < rows[i].ts
         IN  <<rows[i]>> \o OrderByTsDesc(RemoveAt(rows, {i}))

\* fetch_recent without the LIMIT
fetch_recent_unlimited(m, d, server_id, limit) ==
    IF m.disabled_due_to_size THEN << >>
    ELSE OrderByTsDesc(SelectSeq(d.memory, LAMBDA r : r.server_id = server_id))

\* fetch_recent(server_id, limit)
fetch_recent(m, d, server_id, limit) ==
    IF m.disabled_due_to_size THEN << >>
    ELSE LET mine == OrderByTsDesc(SelectSeq(d.memory, LAMBDA r : r.server_id = server_id))
         IN  SubSeq(mine, 1, Min(limit, Len(mine)))

\* get_important(server_id, user_id): the keys stored
get_important(m, d) == IF m.disabled_due_to_size THEN << >> ELSE d.user_important

\* a read that is not wrapped in try/except (fetch_recent, echoes,
\* get_important, ...): what the caller gets, [raised, result]
UnguardedRead(m, outcome, result) ==
    IF m.disabled_due_to_size THEN [raised |-> FALSE, result |-> << >>]
    ELSE IF outcome = "error" THEN [raised |-> TRUE, result |-> << >>]
    ELSE [raised |-> FALSE, result |-> result]

\* get_user_profile: its try/except turns a failure into the defaults; no
\* profile row is ever stored here, so the defaults (<< >>) are all it returns
get_user_profile(m, outcome) == [raised |-> FALSE, result |-> << >>]

NoReport == [rotated |-> 0, disabled |-> FALSE]

MRet(op, committed, result, limit, report, before) ==
    [op |-> op, committed |-> committed, result |-> result, limit |-> limit,
     report |-> report, before |-> before, raised |-> FALSE]

\* a call that ended by raising to its caller
MRaised(op) == [MRet(op, FALSE, << >>, 0, NoReport, 0) EXCEPT !.raised = TRUE]

MemoryIdle ==
    /\ memory = NewMemory
    /\ db = NewDb
    /\ warm_archive = << >>
    /\ threads = [worker |-> "idle", key |-> "", awaiting |-> FALSE, safe_mode |-> FALSE]
    /\ commits = [prev |-> 0, cur |-> 0]
    /\ m_ret = MRet("init", FALSE, << >>, 0, NoReport, 0)


----------------------------------------------------------------------------
(* Governor (governor.py).  Confidences, risks, identity traits and the      *)
(* confidence deltas of memory entries are counted in hundredths.            *)

MaxRealities == 2       \* longest list of reality outputs explored
MaxRecent == 2          \* most entries fetch_recent returns to the governor here

Levels == {60, 70, 80}
Deltas == {-100, 0, 100}
NoAction == "None"                      \* recommended_action is None
fallback == "observe"                   \* ActionIntent(type="observe", ...)

RealityOutput(recommended_action, confidence, risk) ==
    [recommended_action |-> recommended_action, confidence |-> confidence, risk |-> risk]

RealityOutputs ==
    {RealityOutput(NoAction, 60, 60)}
        \cup {RealityOutput("reply", c, r) : c \in Levels, r \in Levels}

Identities ==
    {[assertiveness |-> 50, caution |-> 50, curiosity |-> 50],
     [assertiveness |-> 0, caution |-> 100, curiosity |-> 0]}

SeqsUpTo(S, n) == UNION {[1..k -> S] : k \in 0..n}

GovernorDecision(action, confidence, risk, rationale) ==
    [action |-> action, confidence |-> confidence, risk |-> risk, rationale |-> rationale]

NoDecision == GovernorDecision(NoAction, 0, 0, "")

RECURSIVE Sum(_)
Sum(s) == IF s = << >> THEN 0 ELSE Head(s) + Sum(Tail(s))

\* len(recent), or 1 when recent is empty (memory_bias = 0.0)
Entries(recent) == IF recent = << >> THEN 1 ELSE Len(recent)

\* _score(output, memory_bias) with memory_bias = sum(recent) / len(recent),
\* times 100 * 100 * 1000 * len(recent)
_score(output, identity, recent) ==
    LET n == Entries(recent)
        base == output.confidence * (100 - output.risk)
        modulation == 1000 * n + 2 * n * (identity.assertiveness - identity.caution)
                        + n * identity.curiosity + 10 * Sum(recent)
    IN  base * modulation

\* risk > 0.7 - memory_bias * 0.2, both sides times 500 * len(recent)
OverRiskThreshold(risk, recent) ==
    5 * Entries(recent) * risk > 350 * Entries(recent) - Sum(recent)

\* the for loop with `score >= best_score`: the last of equal scores wins
SelectBestLast(realities, identity, recent) ==
    LET F[i \in 0..Len(realities)] ==
            IF i = 0
            THEN [best |-> NoDecision, best_score |-> -10000000 * Entries(recent)]
            ELSE LET output == realities[i]
                     score == _score(output, identity, recent)
                 IN  IF output.recommended_action = NoAction THEN F[i - 1]
                     ELSE IF score >= F[i - 1].best_score
                     THEN [best |-> GovernorDecision(output.recommended_action,
                                        output.confidence, output.risk, "justification"),
                           best_score |-> score]
                     ELSE F[i - 1]
    IN  F[Len(realities)].best

\* the for loop of deliberate: best and best_score after all outputs
SelectBest(realities, identity, recent) ==
    LET F[i \in 0..Len(realities)] ==
            IF i = 0
            THEN [best |-> NoDecision, best_score |-> -10000000 * Entries(recent)]
            ELSE LET output == realities[i]
                     score == _score(output, identity, recent)
                 IN  IF output.recommended_action = NoAction THEN F[i - 1]
                     ELSE IF score > F[i - 1].best_score
                     THEN [best |-> GovernorDecision(output.recommended_action,
                                        output.confidence, output.risk, "justification"),
                           best_score |-> score]
                     ELSE F[i - 1]
    IN  F[Len(realities)].best

\* deliberate returning the best candidate whatever its risk
deliberate_unchecked(realities, directed, identity, recent) ==
    IF ~directed THEN GovernorDecision(fallback, 35, 5, "ambient")
    ELSE LET best == SelectBest(realities, identity, recent)
         IN  IF best = NoDecision THEN GovernorDecision(fallback, 30, 10, "no recommendation")
             ELSE best

\* deliberate scoring the outputs without testing `directed` first
deliberate_undirected(realities, directed, identity, recent) ==
    LET best == SelectBest(realities, identity, recent)
    IN  IF best = NoDecision THEN GovernorDecision(fallback, 30, 10, "no recommendation")
        ELSE IF OverRiskThreshold(best.risk, recent) /\ best.confidence < 70
        THEN GovernorDecision(fallback, 40, 5, "risk exceeded confidence")
        ELSE best

\* Governor.deliberate; `recent` holds the confidence_delta of the entries
\* memory.fetch_recent(server_id, limit=6) returns
deliberate(realities, directed, identity, recent) ==
    IF ~directed THEN GovernorDecision(fallback, 35, 5, "ambient")
    ELSE LET best == SelectBest(realities, identity, recent)
         IN  IF best = NoDecision THEN GovernorDecision(fallback, 30, 10, "no recommendation")
             ELSE IF OverRiskThreshold(best.risk, recent) /\ best.confidence < 70
             THEN GovernorDecision(fallback, 40, 5, "risk exceeded confidence")
             ELSE best

\* whether a deliberate call reaches self.memory.fetch_recent (line 46)
fetches_recent(directed) == directed

GRet(op, realities, directed, identity, recent, decision) ==
    [op |-> op, realities |-> realities, directed |-> directed, identity |-> identity,
     recent |-> recent, decision |-> decision, fetched |-> FALSE]

GovernorIdle ==
    g_ret = GRet("init", << >>, FALSE, [assertiveness |-> 50, caution |-> 50, curiosity |-> 50],
                 << >>, NoDecision)


----------------------------------------------------------------------------
(* CognitionLoop (cognition.py) and the adapter tasks that share its event   *)
(* loop.  Durations are counted in hundredths of a second.  A stimulus is    *)
(* reduced to its kind: "ambient" (a message that is not directed, never      *)
(* interpreted), "directed", "health" and "silence" (all three interpreted   *)
(* on the pool; only "directed" reaches the governor as directed).           *)
(* An intent is reduced to its type.  `self` below is the part of the loop   *)
(* object the handlers write: [state, safety, allow_writes,                  *)
(* tick_interval_override], allow_writes being memory.allow_writes.          *)

stimulus_queue_limit == 3           \* asyncio.Queue(maxsize=config.stimulus_queue_limit)
action_queue_limit == 2             \* asyncio.Queue(maxsize=config.action_queue_limit)
max_stimuli_per_tick == 2
watchdog_queue_depth == 1
MaxScheduled == 1                   \* most follow-up tasks alive at once
tick_interval_seconds == 50
safe_mode_tick_interval_seconds == 100
watchdog_safe_tick_interval == 150
watchdog_event_loop_lag == 25

NoOverride == 0                     \* tick_interval_override = None
IntentTypes == {"observe", "reply", "send_message", "tool_call", "react", "defer", "schedule"}
StimulusKinds == {"ambient", "directed", "health", "silence"}
AdapterKinds == {"ambient", "directed"}
TickElapsed == {0, 80, 130, 180}    \* time.monotonic() - tick_start
\* one reading of the gauges the watchdog samples
Samples == [cpu : BOOLEAN, rss : BOOLEAN, elapsed : TickElapsed]
OverrunReasons == {"", "tick_timeout", "tick_exception", "decay_budget_exhausted",
                   "stimulus_queue_backlog", "tick_budget_exceeded", "interpret_timeout",
                   "interpret_budget_exceeded", "action_queue_full",
                   "health_stimulus_queue_full"}

NewState == [safe_mode |-> FALSE, overrun_note |-> "", watchdog_note |-> << >>]
NewSafety == [last_overrun_reason |-> "", last_watchdog_reason |-> << >>,
              log_ingest_disabled |-> FALSE]
Self(st, sf, aw, ov) ==
    [state |-> st, safety |-> sf, allow_writes |-> aw, tick_interval_override |-> ov]

\* asyncio.Queue.put_nowait: [queue, full]; a full queue raises QueueFull
\* a put that inserts at the front of the queue
put_front(queue, limit, item) ==
    IF Len(queue) >= limit THEN [queue |-> queue, full |-> TRUE]
    ELSE [queue |-> <<item>> \o queue, full |-> FALSE]

put_nowait(queue, limit, item) ==
    IF Len(queue) >= limit THEN [queue |-> queue, full |-> TRUE]
    ELSE [queue |-> Append(queue, item), full |-> FALSE]

Take(s, n) == SubSeq(s, 1, Min(n, Len(s)))
Drop(s, n) == SubSeq(s, Min(n, Len(s)) + 1, Len(s))

\* the same test without the safe-mode condition
safe_mode_block_off(safe_mode, type) == type

\* the downgrade applied by _decide and again by _act
safe_mode_block(safe_mode, type) ==
    IF safe_mode /\ type \notin {"observe", "reply", "send_message"} THEN "observe" ELSE type

\* governor.deliberate's action, or the fallback when it returns None
_decide(safe_mode, choice) == safe_mode_block(safe_mode, choice)

_record_overrun(self, reason) ==
    [self EXCEPT !.state.overrun_note = reason,
                 !.state.safe_mode = TRUE,
                 !.allow_writes = FALSE,
                 !.safety.last_overrun_reason = reason]

_current_tick_interval(self) ==
    LET base == IF self.state.safe_mode THEN safe_mode_tick_interval_seconds
                ELSE tick_interval_seconds
    IN IF self.tick_interval_override # NoOverride
       THEN Max(base, self.tick_interval_override) ELSE base

\* the reasons list _watchdog builds, in the order of its checks
Reasons(self, sample, qsize) ==
    LET loop_lag == Max(0, sample.elapsed - _current_tick_interval(self))
    IN (IF sample.cpu THEN <<"cpu_load">> ELSE << >>)
       \o (IF sample.rss THEN <<"rss_mb">> ELSE << >>)
       \o (IF loop_lag > watchdog_event_loop_lag THEN <<"loop_lag">> ELSE << >>)
       \o (IF qsize > watchdog_queue_depth THEN <<"stimuli_backlog">> ELSE << >>)

\* a watchdog that never stretches the tick interval
_watchdog_no_override(self, sample, qsize) ==
    LET reasons == Reasons(self, sample, qsize)
    IN IF reasons # << >>
       THEN [self EXCEPT !.state.safe_mode = TRUE,
                         !.allow_writes = FALSE,
                         !.state.watchdog_note = reasons,
                         !.safety.last_watchdog_reason = reasons]
       ELSE self

\* a watchdog that also leaves safe mode when every gauge is back under its threshold
_watchdog_recovering(self, sample, qsize) ==
    LET reasons == Reasons(self, sample, qsize)
    IN IF reasons # << >>
       THEN [self EXCEPT !.state.safe_mode = TRUE,
                         !.allow_writes = FALSE,
                         !.tick_interval_override = watchdog_safe_tick_interval,
                         !.state.watchdog_note = reasons,
                         !.safety.last_watchdog_reason = reasons]
       ELSE [self EXCEPT !.state.safe_mode = FALSE]

_watchdog(self, sample, qsize) ==
    LET reasons == Reasons(self, sample, qsize)
    IN IF reasons # << >>
       THEN [self EXCEPT !.state.safe_mode = TRUE,
                         !.allow_writes = FALSE,
                         !.tick_interval_override = watchdog_safe_tick_interval,
                         !.state.watchdog_note = reasons,
                         !.safety.last_watchdog_reason = reasons]
       ELSE self

\* an _act that drops the intent on a full queue without recording an overrun
_act_silent(self, queue, type) ==
    LET intent == safe_mode_block(self.state.safe_mode, type)
        put == put_nowait(queue, action_queue_limit, intent)
    IN [self |-> self, queue |-> put.queue, intent |-> intent, full |-> put.full,
        safe_mode |-> self.state.safe_mode]

\* _act: [self, queue, intent, full, safe_mode], intent being what it tried to
\* enqueue
_act(self, queue, type) ==
    LET intent == safe_mode_block(self.state.safe_mode, type)
        put == put_nowait(queue, action_queue_limit, intent)
    IN [self |-> IF put.full THEN _record_overrun(self, "action_queue_full") ELSE self,
        queue |-> put.queue, intent |-> intent, full |-> put.full,
        safe_mode |-> self.state.safe_mode]

\* _reflect returns at once in safe mode with writes off, and for ambient
\* messages and silence; otherwise it may raise, which _tick answers by forcing
\* safe mode
ReflectMayRaise(self, kind) ==
    /\ ~(self.state.safe_mode /\ ~self.allow_writes)
    /\ kind \notin {"ambient", "silence"}
_reflect(self, kind, raises) ==
    IF raises /\ ReflectMayRaise(self, kind)
    THEN [self EXCEPT !.state.safe_mode = TRUE] ELSE self

\* what governor.deliberate may recommend for a stimulus of this kind
\* the intent types governor.deliberate can hand to _decide: any type a
\* reality recommends when directed, what deliberate(directed=False) returns
\* otherwise
Choices(kind) ==
    IF kind = "directed" THEN IntentTypes
    ELSE {deliberate(<< >>, FALSE, identity, << >>).action : identity \in Identities}

\* the last enqueue attempt: who made it, with what, on a full queue or not; for
\* _act also the governor's choice and safe_mode as _act read it
CRet(op, choice, intent, full, safe_mode) ==
    [op |-> op, choice |-> choice, intent |-> intent, full |-> full, safe_mode |-> safe_mode]
NoPut == CRet("", "", "", FALSE, FALSE)
NewTick == [pc |-> "new", stimuli |-> << >>]
NewScheduled == [created |-> 0, sleeping |-> 0, blocked |-> 0]

CognitionIdle ==
    /\ running = FALSE
    /\ state = NewState
    /\ safety = NewSafety
    /\ tick_interval_override = NoOverride
    /\ stimulus_queue = << >>
    /\ action_queue = << >>
    /\ tick = NewTick
    /\ scheduled = NewScheduled
    /\ c_ret = NoPut

----------------------------------------------------------------------------
(* ActionJournal (action_journal.py).  An entry is [n, reversible], n being  *)
(* the order in which it was recorded.                                       *)

max_entries_per_user == 2           \* ActionJournal(max_entries_per_user=2)
MaxRecords == 4                     \* most entries recorded in a run
JournalUsers == {"1", "user"}
NoEntry == [n |-> 0, reversible |-> FALSE]

\* record: the bucket after the append and the trim
journal_record_keep_all(bucket, entry) == Append(bucket, entry)

journal_record(bucket, entry) ==
    LET appended == Append(bucket, entry)
    IN IF Len(appended) > max_entries_per_user THEN Tail(appended) ELSE appended

last(bucket) == IF bucket # << >> THEN bucket[Len(bucket)] ELSE NoEntry

\* index of the newest reversible entry, 0 when there is none
LastReversibleIndex(bucket) ==
    LET idxs == {i \in 1..Len(bucket) : bucket[i].reversible}
    IN IF idxs = {} THEN 0 ELSE CHOOSE i \in idxs : \A j \in idxs : j <= i

last_reversible(bucket) ==
    IF LastReversibleIndex(bucket) = 0 THEN NoEntry ELSE bucket[LastReversibleIndex(bucket)]

\* list.pop(idx)
PopAt(bucket, idx) == SubSeq(bucket, 1, idx - 1) \o SubSeq(bucket, idx + 1, Len(bucket))

\* last_reversible taken for pop_last_reversible: the entry stays in the bucket
pop_last_reversible_peek(bucket) ==
    [bucket |-> bucket, entry |-> last_reversible(bucket)]

\* pop_last_reversible: [bucket, entry]
pop_last_reversible(bucket) ==
    LET idx == LastReversibleIndex(bucket)
    IN IF idx = 0 THEN [bucket |-> bucket, entry |-> NoEntry]
       ELSE [bucket |-> PopAt(bucket, idx), entry |-> bucket[idx]]

JRet(op, user, entry) == [op |-> op, user |-> user, entry |-> entry]

NewLog == [count |-> 0, kept |-> [u \in JournalUsers |-> << >>]]

JournalIdle ==
    /\ _entries = [u \in JournalUsers |-> << >>]
    /\ j_log = NewLog
    /\ j_ret = JRet("init", "", NoEntry)

----------------------------------------------------------------------------
(* RateLimiter (actions.py).  Times are whole seconds. *)

max_actions_per_minute == 3     \* RuntimeConfig.max_actions_per_minute
action_burst == 2               \* RuntimeConfig.action_burst
window == 60                    \* self.window = 60.0
burst_window == 5               \* the literal 5 of "now - t < 5"
LMaxTime == 65                  \* the clock stops here in the limiter's runs
\* the instants at which the limiter is called: both sides of the end of a
\* 5-second and of a 60-second window that starts at 0, at 5 or at 60
LimiterInstants == {0, 4, 5, 59, 60, 64, LMaxTime}
LimiterKeys == {"send:1", "reply:1"}

\* [t for t in ts if now - t < span]
Within(ts, now, span) == SelectSeq(ts, LAMBDA t : now - t < span)

\* allow(key) that appends the timestamp before the two tests
limiter_allow_eager(acts, key, now) ==
    LET kept == Within(acts[key], now, window)
        recent_burst == Within(kept, now, burst_window)
    IN  IF Len(kept) >= max_actions_per_minute
        THEN [actions |-> [acts EXCEPT ![key] = Append(kept, now)], result |-> FALSE]
        ELSE IF Len(recent_burst) >= action_burst
        THEN [actions |-> [acts EXCEPT ![key] = Append(kept, now)], result |-> FALSE]
        ELSE [actions |-> [acts EXCEPT ![key] = Append(kept, now)], result |-> TRUE]

\* RateLimiter.allow(key) called when time.time() returns `now`: the dict
\* afterwards and the value returned
limiter_allow(acts, key, now) ==
    LET kept == Within(acts[key], now, window)
        recent_burst == Within(kept, now, burst_window)
    IN  IF Len(kept) >= max_actions_per_minute
        THEN [actions |-> [acts EXCEPT ![key] = kept], result |-> FALSE]
        ELSE IF Len(recent_burst) >= action_burst
        THEN [actions |-> [acts EXCEPT ![key] = kept], result |-> FALSE]
        ELSE [actions |-> [acts EXCEPT ![key] = Append(kept, now)], result |-> TRUE]

LRet(op, key, now, result) == [op |-> op, key |-> key, now |-> now, result |-> result]

LimiterIdle ==
    /\ actions = [key \in LimiterKeys |-> << >>]
    /\ l_log = [key \in LimiterKeys |-> << >>]
    /\ l_ret = LRet("init", "", 0, FALSE)

----------------------------------------------------------------------------
(* The interpreter pool: CognitionLoop._interpret (cognition.py).  A future  *)
(* is "pending" while its strategy runs, "done" when it returned an output,  *)
(* "raised" when it finished with an exception, "cancelled" after cancel().  *)

Strategies == {"social", "tools", "strategic"}
FutureStates == {"pending", "done", "raised"}

\* the futures asyncio.wait hands back as done, and as pending
Done(fs) == {s \in DOMAIN fs : fs[s] \in {"done", "raised"}}
Pending(fs) == {s \in DOMAIN fs : fs[s] = "pending"}

\* outputs that also take what the pending strategies would have returned
interpret_outputs_all(fs) == {s \in DOMAIN fs : fs[s] \in {"done", "pending"}}

\* outputs: fut.result() of every done future that did not raise
interpret_outputs(fs) == {s \in Done(fs) : fs[s] = "done"}

\* fut.cancel() for every pending future
cancel_pending(fs) == [s \in DOMAIN fs |-> IF s \in Pending(fs) THEN "cancelled" ELSE fs[s]]

\* the last _interpret call: the futures as asyncio.wait found them, whether
\* the iteration went on to _decide, and the outputs _decide was given
IRet(op, found, decided, interpretations) ==
    [op |-> op, found |-> found, decided |-> decided, interpretations |-> interpretations]

max_llm_calls_per_tick == 1
WorkerIds == 1..2                   \* threads of the interpret executor running the social strategy

Worker(pc, recommended) == [pc |-> pc, recommended |-> recommended]
IdleWorker == Worker("idle", "")

\* the budget test of SocialReality.interpret (line 293)
budget_exhausted(remaining) == remaining <= 0

BudgetIdle ==
    /\ llm_calls_remaining = 0
    /\ workers = [w \in WorkerIds |-> IdleWorker]
    /\ awaited = 0
    /\ replies = 0

PoolIdle ==
    /\ futures = [s \in Strategies |-> "done"]
    /\ i_ret = IRet("init", [s \in Strategies |-> "done"], FALSE, {})
    /\ BudgetIdle

----------------------------------------------------------------------------
(* Actions of the session router *)

SessionInit ==
    /\ clock = 0
    /\ sessions = << >>
    /\ active_by_channel = [ck \in ChannelKeys |-> None]
    /\ objs = << >>
    /\ ret = Ret("init", NoStim, "", None, << >>)
    /\ BreakerIdle
    /\ MemoryIdle
    /\ GovernorIdle
    /\ CognitionIdle
    /\ JournalIdle
    /\ LimiterIdle
    /\ PoolIdle

Tick ==
    /\ clock < MaxTime
    /\ clock' = clock + 1
    /\ ret' = Ret("tick", NoStim, "", None, << >>)
    /\ UNCHANGED <<sessions, active_by_channel, objs, nonSessionVars>>

RouteStimulus(stim, d) ==
    /\ clock + d <= MaxTime
    /\ LET r == route_stimulus(stim, clock, clock + d) IN
       /\ \A id \in DOMAIN r.objs : r.objs[id].message_count <= MaxCount
       /\ sessions' = r.sessions
       /\ active_by_channel' = r.abc
       /\ objs' = Collect(r.sessions, r.abc, r.objs)
       /\ ret' = Ret("route_stimulus", stim, r.routing, r.session, r.ended)
    /\ clock' = clock + d
    /\ UNCHANGED nonSessionVars

ExpireStale ==
    /\ LET r == expire_stale(sessions, objs, clock) IN
       /\ sessions' = r.sessions
       /\ objs' = Collect(r.sessions, active_by_channel, objs)
       /\ ret' = Ret("expire_stale", NoStim, "", None, r.ended)
    /\ UNCHANGED <<clock, active_by_channel, nonSessionVars>>

EndSession(user_id, guild_id, channel_id) ==
    /\ LET key == _key(user_id, guild_id, channel_id)
           session == DictGet(sessions, key)
       IN  /\ sessions' = DictPop(sessions, key)
           /\ objs' = Collect(DictPop(sessions, key), active_by_channel,
                               IF session # None
                               THEN [objs EXCEPT ![session].active = FALSE] ELSE objs)
           /\ ret' = Ret("end_session", NoStim, "", session, << >>)
    /\ UNCHANGED <<clock, active_by_channel, nonSessionVars>>

SessionNext ==
    \/ Tick
    \/ \E stim \in Stimuli, d \in 0..1 : RouteStimulus(stim, d)
    \/ ExpireStale
    \/ \E u \in UserIds, ck \in ChannelKeys : EndSession(u, ck[1], ck[2])

SessionSpec == SessionInit /\ [][SessionNext]_vars

----------------------------------------------------------------------------
(* Claims about the session router *)

IsRoute(r) == r.op = "route_stimulus"
HasAuthorAndChannel(r) ==
    r.type \in {"discord_message", "attachment"} /\ r.author_id # None /\ r.channel_id # None
Superseded(r) == {i \in 1..Len(r.ended) : r.ended[i][2] = "superseded"}

\* C1: after any sequence of route_stimulus, expire_stale and end_session calls,
\* no two entries of `sessions` share the same guild_id and channel_id.
C1_OneSessionPerChannel ==
    \A i, j \in 1..Len(sessions) :
        ( /\ objs[sessions[i].obj].guild_id = objs[sessions[j].obj].guild_id
          /\ objs[sessions[i].obj].channel_id = objs[sessions[j].obj].channel_id )
        => i = j

\* C1 witness: a second user has just taken the channel over from the first and
\* `sessions` holds exactly the newcomer's entry.
C1_Witness ==
    /\ IsRoute(ret)
    /\ Superseded(ret) # {}
    /\ Len(sessions) = 1
    /\ objs[sessions[1].obj].user_id = ret.author_id

\* C2: when user B sends a stimulus that addresses the system in a channel whose
\* active, unexpired session belongs to another user A, the call returns exactly
\* one (A's session, "superseded") end event, removes A's session from
\* `sessions`, and returns a session owned by B that is the channel's active
\* session afterwards.
C2_SupersedeOnNewUser ==
    [][ LET ck == <<ret'.guild_id, ret'.channel_id>>
            a == active_by_channel[ck]
        IN  ( /\ IsRoute(ret')
              /\ HasAuthorAndChannel(ret')
              /\ ret'.addressed
              /\ a # None
              /\ ~expired(objs[a], clock)
              /\ objs[a].user_id # ret'.author_id )
            =>
            ( /\ ret'.routing = "directed"
              /\ Cardinality(Superseded(ret')) = 1
              /\ \A i \in Superseded(ret') : ret'.ended[i][1] = a
              /\ ~DictHas(sessions', _key(objs[a].user_id, ck[1], ck[2]))
              /\ \A i \in 1..Len(sessions') : sessions'[i].obj # a
              /\ ret'.session # None
              /\ objs'[ret'.session].user_id = ret'.author_id
              /\ active_by_channel'[ck] = ret'.session
              /\ DictGet(sessions', _key(ret'.author_id, ck[1], ck[2])) = ret'.session )
      ]_vars

\* C2 witness: user 2 was routed directed and the call's only end event is the
\* "superseded" event of the previous owner.
C2_Witness ==
    /\ IsRoute(ret)
    /\ ret.routing = "directed"
    /\ ret.author_id = 2
    /\ Len(ret.ended) = 1
    /\ ret.ended[1][2] = "superseded"
    /\ active_by_channel[<<ret.guild_id, ret.channel_id>>] = ret.session

\* C3: once the clock has reached a session's expires_at, the session is never
\* treated as live: get() does not return it, and a route_stimulus call neither
\* refreshes it nor routes an unaddressed stimulus as directed because of it.
C3_ExpiredNeverLive ==
    [][ /\ \A u \in UserIds, ck \in ChannelKeys :
              LET g == get(u, ck[1], ck[2], clock) IN
              g # None => ~expired(objs[g], clock)
        /\ IsRoute(ret') =>
              \A id \in DOMAIN objs :
                  expired(objs[id], clock') =>
                      /\ ~( id \in DOMAIN objs'
                            /\ objs'[id].message_count > objs[id].message_count )
                      /\ ~( ret'.routing = "directed" /\ ~ret'.addressed
                            /\ ret'.session = id )
      ]_vars

\* C21: a route_stimulus call that returns 'ambient' or 'system' creates no
\* session and refreshes none; every session object that remains is as it was,
\* every entry of `sessions` and of `active_by_channel` is either unchanged or
\* removed, and a removed one had expired.
C21_AmbientLeavesSessionsAlone ==
    [][ (IsRoute(ret') /\ ret'.routing \in {"ambient", "system"}) =>
          /\ ret'.session = None
          /\ \A id \in DOMAIN objs' : id \in DOMAIN objs /\ objs'[id] = objs[id]
          /\ \A i \in 1..Len(sessions') : \E j \in 1..Len(sessions) : sessions[j] = sessions'[i]
          /\ \A j \in 1..Len(sessions) :
                (\A i \in 1..Len(sessions') : sessions'[i] # sessions[j])
                    => expired(objs[sessions[j].obj], clock')
          /\ \A ck \in ChannelKeys :
                \/ active_by_channel'[ck] = active_by_channel[ck]
                \/ /\ active_by_channel'[ck] = None
                   /\ expired(objs[active_by_channel[ck]], clock')
      ]_vars

\* C21 witness: an unaddressed message of a user without a session was routed
\* ambient while another user's live session stays the channel's active one.
C21_Witness ==
    /\ IsRoute(ret)
    /\ HasAuthorAndChannel(ret)
    /\ ret.routing = "ambient"
    /\ Len(sessions) = 1
    /\ objs[sessions[1].obj].user_id # ret.author_id
    /\ ~expired(objs[sessions[1].obj], clock)
    /\ active_by_channel[<<ret.guild_id, ret.channel_id>>] = sessions[1].obj

\* the author of the call holds a session in `sessions` under the call's
\* (user, guild, channel) that has not expired at time `now`
HoldsLiveSession(r, now) ==
    LET session == DictGet(sessions, _key(r.author_id, r.guild_id, r.channel_id))
    IN  session # None /\ ~expired(objs[session], now)

\* C22: for a message or attachment with an author and a channel,
\* route_stimulus returns 'directed' exactly when the stimulus mentions the
\* bot, or its text names the system, or its author holds a non-expired
\* session in that (guild, channel) when the call is made; otherwise it
\* returns 'ambient'.
C22_DirectedIffAddressedOrInSession ==
    [][ (IsRoute(ret') /\ HasAuthorAndChannel(ret')) =>
          /\ ret'.routing \in {"directed", "ambient"}
          /\ ret'.routing = "directed" <=>
                (ret'.addressed \/ HoldsLiveSession(ret', clock))
      ]_vars

Ended == {id \in DOMAIN objs : ~objs[id].active}

\* C34: after end_session has returned a session, the session is destroyed:
\* an unaddressed stimulus of its user in its channel is routed 'ambient', no
\* call refreshes it or returns it, and no 'timeout' or 'superseded' end
\* event is emitted for it.
C34_EndedSessionDestroyed ==
    [][ \A id \in Ended :
          /\ id \in DOMAIN objs' => objs'[id] = objs[id]
          /\ ret'.op \in {"route_stimulus", "expire_stale"} =>
                /\ ret'.session # id
                /\ \A i \in 1..Len(ret'.ended) : ret'.ended[i][1] # id
          /\ ( /\ IsRoute(ret')
               /\ HasAuthorAndChannel(ret')
               /\ ~ret'.addressed
               /\ ret'.author_id = objs[id].user_id
               /\ ret'.guild_id = objs[id].guild_id
               /\ ret'.channel_id = objs[id].channel_id )
             => ret'.routing = "ambient"
      ]_vars

\* the sessions an earlier call reported as ended and that are still
\* referenced: popped from `sessions` by expire_stale, not by end_session
Reported ==
    {id \in DOMAIN objs : objs[id].active /\ \A i \in 1..Len(sessions) : sessions[i].obj # id}

\* the sessions the call that just returned reported, in its `ended` list
ReportedNow(r) == {r.ended[i][1] : i \in 1..Len(r.ended)}

\* C38: a session produces at most one end event over its lifetime: no call
\* lists it twice in `ended` (as 'timeout' and 'superseded', or twice the
\* same), no later call lists it again, and a reported session is neither
\* refreshed nor returned as the session of a directed stimulus.
C38_AtMostOneEndEvent ==
    [][ ret'.op \in {"route_stimulus", "expire_stale"} =>
          /\ \A i, j \in 1..Len(ret'.ended) :
                ret'.ended[i][1] = ret'.ended[j][1] => i = j
          /\ \A id \in ReportedNow(ret') :
                /\ ret'.session # id
                /\ id \in DOMAIN objs' => objs'[id] = objs[id]
          /\ \A id \in Reported :
                /\ id \notin ReportedNow(ret')
                /\ ret'.session # id
                /\ id \in DOMAIN objs' => objs'[id] = objs[id]
      ]_vars

----------------------------------------------------------------------------
(* Actions of the circuit breaker (threshold=2, window=10s, cooldown=5s) *)

SessionIdle ==
    /\ sessions = << >>
    /\ active_by_channel = [ck \in ChannelKeys |-> None]
    /\ objs = << >>
    /\ ret = Ret("init", NoStim, "", None, << >>)

BreakerInit ==
    /\ clock = 0
    /\ BreakerIdle
    /\ SessionIdle
    /\ MemoryIdle
    /\ GovernorIdle
    /\ CognitionIdle
    /\ JournalIdle
    /\ LimiterIdle
    /\ PoolIdle

BreakerTick ==
    /\ clock < BMaxTime
    /\ clock' = clock + 1
    /\ b_ret' = BRet("tick", clock + 1, TRUE)
    /\ UNCHANGED <<breaker, b_reached, nonBreakerVars>>

Allow(d) ==
    /\ clock + d <= BMaxTime
    /\ LET r == allow(breaker, TestBreaker, clock, clock + d) IN
       /\ breaker' = r.b
       /\ b_ret' = BRet("allow", clock, r.result)
    /\ clock' = clock + d
    /\ UNCHANGED <<b_reached, nonBreakerVars>>

RecordFailure(reason, d) ==
    /\ clock + d <= BMaxTime
    /\ LET b == record_failure(breaker, TestBreaker, reason, clock, clock + d) IN
       /\ Len(b.failures) <= MaxFailures
       /\ breaker' = b
       /\ b_reached' = (b_reached \/ Len(b.failures) >= threshold)
    /\ b_ret' = BRet("record_failure", clock, TRUE)
    /\ clock' = clock + d
    /\ UNCHANGED nonBreakerVars

RecordSuccess(d) ==
    /\ clock + d <= BMaxTime
    /\ breaker' = record_success(breaker, TestBreaker, clock, clock + d)
    /\ b_ret' = BRet("record_success", clock, TRUE)
    /\ clock' = clock + d
    /\ UNCHANGED <<b_reached, nonBreakerVars>>

BreakerNext ==
    \/ BreakerTick
    \/ \E d \in 0..1 : Allow(d)
    \/ \E d \in 0..1 : RecordFailure("boom", d)
    \/ \E d \in 0..1 : RecordSuccess(d)

BreakerSpec == BreakerInit /\ [][BreakerNext]_vars

----------------------------------------------------------------------------
(* Claims about the circuit breaker *)

\* Failures recorded inside the last window_seconds before `now`.
InWindow(failures, now) ==
    Cardinality({i \in 1..Len(failures) : now - failures[i] <= window_seconds})

\* The tripping point of the current cooldown: tripped_until = T + cooldown.
TripPoint == breaker.tripped_until - cooldown_seconds

\* C4: allow() returns false at the instant of the record_failure call that finds
\* `threshold` failures inside the window, and it returns true on every check
\* made before any record_failure call has found that many.
C4_TripsAtThreshold ==
    [][ /\ ( /\ b_ret'.op = "record_failure"
             /\ InWindow(breaker'.failures, b_ret'.now) >= threshold )
           => ~allow(breaker', TestBreaker, b_ret'.now, b_ret'.now).result
        /\ (b_ret'.op = "allow" /\ ~b_reached') => b_ret'.result
      ]_vars

\* C4 witness: allow() answered false at the very instant of the failure that
\* filled the window.
C4_Witness ==
    /\ b_ret.op = "allow"
    /\ ~b_ret.result
    /\ b_ret.now = TripPoint
    /\ Len(breaker.failures) = threshold
    /\ \A i \in 1..Len(breaker.failures) : breaker.failures[i] = b_ret.now

\* C5 as stated: after a trip at T, allow() is false at every t with
\* t - T <= cooldown_seconds and true only strictly later than T + cooldown.
C5_FalseThroughCooldownEnd ==
    ( /\ b_ret.op = "allow"
      /\ breaker.tripped_until > 0
      /\ b_ret.now - TripPoint <= cooldown_seconds )
    => ~b_ret.result

\* C5 amended: after a trip at T (and no later trip), allow() is false at every
\* t with t - T < cooldown_seconds and true at every t >= T + cooldown_seconds.
C5_FalseUntilCooldownEnd ==
    ( /\ b_ret.op = "allow"
      /\ breaker.tripped_until > 0 )
    => (~b_ret.result <=> b_ret.now - TripPoint < cooldown_seconds)

\* C5 witness: allow() called exactly cooldown_seconds after the trip returned true.
C5_Witness ==
    /\ b_ret.op = "allow"
    /\ breaker.tripped_until > 0
    /\ b_ret.now = TripPoint + cooldown_seconds
    /\ b_ret.result

\* C6: the first check (allow, record_failure or record_success) made once
\* tripped_until has passed clears the failure history and the reason, so a
\* single new failure after the cooldown does not trip the breaker again.
C6_HistoryClearedOnExit ==
    [][ ( /\ b_ret'.op \in {"allow", "record_failure", "record_success"}
          /\ breaker.tripped_until > 0
          /\ b_ret'.now >= breaker.tripped_until )
        =>
        ( /\ \A i \in 1..Len(breaker'.failures) :
                 breaker'.failures[i] >= breaker.tripped_until
          /\ b_ret'.op # "record_failure" => breaker'.reason = ""
          /\ ( /\ b_ret'.op = "record_failure"
               /\ threshold >= 2
               /\ \A i \in 1..Len(breaker.failures) :
                      breaker.failures[i] < breaker.tripped_until )
             => breaker'.tripped_until = breaker.tripped_until )
      ]_vars

----------------------------------------------------------------------------
(* Actions of the causal memory.  The loop thread calls record(); a worker   *)
(* thread of the interpret pool calls save_important() while the loop awaits *)
(* it, and goes on running when the loop gives up waiting; maintain() runs   *)
(* on the maintenance thread.                                                *)

\* Stimulus.timestamp of the stimulus reflected on: when it was created
StimulusTimes == {t \in {clock - 1, clock} : t >= 0}
Limits == {1, MaxLimit}

MemoryInit ==
    /\ clock = 0
    /\ SessionIdle
    /\ BreakerIdle
    /\ MemoryIdle
    /\ GovernorIdle
    /\ CognitionIdle
    /\ JournalIdle
    /\ LimiterIdle
    /\ PoolIdle

\* the history after the clock has advanced by d, and after a write
Advance(log, d) == IF d = 0 THEN log ELSE [prev |-> log.cur, cur |-> 0]
Logged(log, committed, d) ==
    IF committed THEN [Advance(log, d) EXCEPT !.cur = @ + 1] ELSE Advance(log, d)

MemoryTick ==
    /\ clock < MMaxTime
    /\ clock' = clock + 1
    /\ commits' = Advance(commits, 1)
    /\ m_ret' = MRet("tick", FALSE, << >>, 0, NoReport, 0)
    /\ UNCHANGED <<memory, db, warm_archive, threads, nonMemoryVars>>

\* CognitionLoop._reflect -> memory.record(...), on the loop thread
Record(server_id, ts, outcome, d) ==
    /\ ~threads.awaiting
    /\ clock + d <= MMaxTime
    /\ \E tw \in {clock, clock + d} :
       \E written \in record_writer(db.memory, server_id, ts, tw) :
          LET r == _execute_write(memory, db, "memory", written, outcome, clock, clock + d) IN
          /\ memory' = r.m
          /\ db' = r.db
          /\ commits' = Logged(commits, r.committed, d)
          /\ m_ret' = MRet("record", r.committed, << >>, 0, NoReport, Len(db.memory))
    /\ clock' = clock + d
    /\ UNCHANGED <<warm_archive, threads, nonMemoryVars>>

\* CognitionLoop._interpret: SocialReality.interpret handed to the pool
InterpretStart(key) ==
    /\ ~threads.awaiting
    /\ threads.worker = "idle"
    /\ threads' = [threads EXCEPT !.worker = "interpret", !.key = key, !.awaiting = TRUE]
    /\ m_ret' = MRet("interpret", FALSE, << >>, 0, NoReport, 0)
    /\ UNCHANGED <<clock, memory, db, warm_archive, commits, nonMemoryVars>>

\* the worker enters save_important and passes, or fails, the gates
WorkerGate ==
    /\ threads.worker = "interpret"
    /\ IF memory.disabled_due_to_size
       THEN /\ threads' = [threads EXCEPT !.worker = "done"]
            /\ UNCHANGED memory
       ELSE LET g == _execute_write_gate(memory, clock) IN
            /\ memory' = g.m
            /\ threads' = [threads EXCEPT !.worker = IF g.pass THEN "gated" ELSE "done"]
    /\ m_ret' = MRet("save_important_gate", FALSE, << >>, 0, NoReport, 0)
    /\ UNCHANGED <<clock, db, warm_archive, commits, nonMemoryVars>>

\* the worker opens the connection, writes and commits
WorkerCommit(outcome, d) ==
    /\ threads.worker = "gated"
    /\ clock + d <= MMaxTime
    /\ LET r == _execute_write_commit(memory, db, "user_important",
                    save_important_writer(db.user_important, threads.key),
                    outcome, clock + d) IN
       /\ memory' = r.m
       /\ db' = r.db
       /\ commits' = Logged(commits, r.committed, d)
       /\ m_ret' = MRet("save_important", r.committed, << >>, 0, NoReport, 0)
    /\ threads' = [threads EXCEPT !.worker = "done"]
    /\ clock' = clock + d
    /\ UNCHANGED <<warm_archive, nonMemoryVars>>

\* asyncio.wait returns with the future done
InterpretDone ==
    /\ threads.awaiting
    /\ threads.worker = "done"
    /\ threads' = [threads EXCEPT !.worker = "idle", !.awaiting = FALSE]
    /\ m_ret' = MRet("interpret_done", FALSE, << >>, 0, NoReport, 0)
    /\ UNCHANGED <<clock, memory, db, warm_archive, commits, nonMemoryVars>>

\* asyncio.wait times out with the future pending: _record_overrun
InterpretTimeout ==
    /\ threads.awaiting
    /\ threads.worker \in {"interpret", "gated"}
    /\ threads' = [threads EXCEPT !.awaiting = FALSE, !.safe_mode = TRUE]
    /\ memory' = [memory EXCEPT !.allow_writes = FALSE]
    /\ m_ret' = MRet("interpret_timeout", FALSE, << >>, 0, NoReport, 0)
    /\ UNCHANGED <<clock, db, warm_archive, commits, nonMemoryVars>>

\* an abandoned worker returns
WorkerExit ==
    /\ ~threads.awaiting
    /\ threads.worker = "done"
    /\ threads' = [threads EXCEPT !.worker = "idle"]
    /\ m_ret' = MRet("worker_exit", FALSE, << >>, 0, NoReport, 0)
    /\ UNCHANGED <<clock, memory, db, warm_archive, commits, nonMemoryVars>>

\* DiscordAdapter.on_message: an admin's "exit safe mode"
AdminExitSafeMode ==
    /\ threads.safe_mode
    /\ threads' = [threads EXCEPT !.safe_mode = FALSE]
    /\ memory' = [memory EXCEPT !.allow_writes = TRUE]
    /\ m_ret' = MRet("exit_safe_mode", FALSE, << >>, 0, NoReport, 0)
    /\ UNCHANGED <<clock, db, warm_archive, commits, nonMemoryVars>>

\* CognitionLoop._maintenance_loop: memory.maintain() on the maintenance thread
Maintain ==
    /\ \E o \in maintain(memory, db, warm_archive) :
          /\ memory' = o.m
          /\ db' = o.db
          /\ warm_archive' = o.archive
          /\ threads' = [threads EXCEPT !.safe_mode = @ \/ o.report.disabled]
          /\ m_ret' = MRet("maintain", FALSE, << >>, 0, o.report, Len(db.memory))
    /\ UNCHANGED <<clock, commits, nonMemoryVars>>

\* the database file grows past, or shrinks below, memory_max_file_mb
SizeChange ==
    /\ db' = [db EXCEPT !.oversize = ~@]
    /\ m_ret' = MRet("size_change", FALSE, << >>, 0, NoReport, 0)
    /\ UNCHANGED <<clock, memory, warm_archive, threads, commits, nonMemoryVars>>

FetchRecent(server_id, limit) ==
    /\ m_ret' = MRet("fetch_recent", FALSE, fetch_recent(memory, db, server_id, limit),
                     limit, NoReport, 0)
    /\ UNCHANGED <<clock, memory, db, warm_archive, threads, commits, nonMemoryVars>>

MemoryNext ==
    \/ MemoryTick
    \/ \E s \in MemServers, ts \in StimulusTimes, o \in WriteOutcomes, d \in 0..1 :
          Record(s, ts, o, d)
    \/ AdminExitSafeMode
    \/ Maintain
    \/ SizeChange
    \/ \E s \in MemServers, limit \in Limits : FetchRecent(s, limit)

MemorySpec == MemoryInit /\ [][MemoryNext]_vars

\* the write path alone, with the interpret worker running beside the loop
WriterNext ==
    \/ MemoryTick
    \/ \E s \in MemServers, ts \in StimulusTimes, o \in WriteOutcomes, d \in 0..1 :
          Record(s, ts, o, d)
    \/ \E k \in ImportantKeys : InterpretStart(k)
    \/ WorkerGate
    \/ \E o \in WriteOutcomes, d \in 0..1 : WorkerCommit(o, d)
    \/ InterpretDone
    \/ InterpretTimeout
    \/ WorkerExit
    \/ AdminExitSafeMode

WriterSpec == MemoryInit /\ [][WriterNext]_vars

\* fetch_recent with a storage engine that may fail
FetchRecentOn(server_id, limit, outcome) ==
    /\ LET r == UnguardedRead(memory, outcome, fetch_recent(memory, db, server_id, limit))
       IN m_ret' = [MRet("fetch_recent", FALSE, r.result, limit, NoReport, 0)
                      EXCEPT !.raised = r.raised]
    /\ UNCHANGED <<clock, memory, db, warm_archive, threads, commits, nonMemoryVars>>

\* get_important with a storage engine that may fail
GetImportantOn(outcome) ==
    /\ LET r == UnguardedRead(memory, outcome, get_important(memory, db))
       IN m_ret' = [MRet("get_important", FALSE, r.result, 0, NoReport, 0)
                      EXCEPT !.raised = r.raised]
    /\ UNCHANGED <<clock, memory, db, warm_archive, threads, commits, nonMemoryVars>>

\* get_user_profile with a storage engine that may fail
GetUserProfileOn(outcome) ==
    /\ LET r == get_user_profile(memory, outcome)
       IN m_ret' = [MRet("get_user_profile", FALSE, r.result, 0, NoReport, 0)
                      EXCEPT !.raised = r.raised]
    /\ UNCHANGED <<clock, memory, db, warm_archive, threads, commits, nonMemoryVars>>

\* the write path called sequentially over a storage engine that may fail
FaultNext ==
    \/ MemoryTick
    \/ \E ts \in StimulusTimes, o \in FaultOutcomes, d \in 0..1 : Record("global", ts, o, d)
    \/ AdminExitSafeMode
    \/ Maintain
    \/ SizeChange

FaultSpec == MemoryInit /\ [][FaultNext]_vars

\* the read operations called over a storage engine that may fail
ReadFaultNext ==
    \/ MemoryTick
    \/ \E ts \in StimulusTimes : Record("global", ts, "ok", 0)
    \/ \E limit \in Limits, o \in ReadOutcomes : FetchRecentOn("global", limit, o)
    \/ \E o \in ReadOutcomes : GetImportantOn(o)
    \/ \E o \in ReadOutcomes : GetUserProfileOn(o)
    \/ Maintain
    \/ SizeChange

ReadFaultSpec == MemoryInit /\ [][ReadFaultNext]_vars

----------------------------------------------------------------------------
(* Claims about the causal memory *)

\* C7: in any rolling 1-second window (an instant and the one a second
\* before it) the number of committed memory writes never exceeds
\* memory_max_writes_per_second, whatever the calls and their interleaving.
C7_WritesPerSecondBounded ==
    commits.prev + commits.cur <= memory_max_writes_per_second

Archived(before, after) ==
    SelectSeq(SubSeq(after, Len(before) + 1, Len(after)), LAMBDA line : ~line.summary)

\* C9: every row maintain() removes from the memory table is appended to the
\* warm archive as a summary: the archive gains exactly the removed rows, and
\* holds at least one line after a maintain() that found more than
\* hot_memory_row_cap rows.
C9_RemovedRowsArchived ==
    [][ m_ret'.op = "maintain" =>
          /\ Len(Archived(warm_archive, warm_archive')) = Len(db.memory) - Len(db'.memory)
          /\ (Len(db.memory) > hot_memory_row_cap /\ ~memory'.disabled_due_to_size)
                => Len(warm_archive') >= 1
      ]_vars

\* C14: while the store is disabled because of its size, a write leaves the
\* stored data unchanged and a read returns its empty result, whatever other
\* command was issued meanwhile (the admin's exit from safe mode included).
C14_DisabledStoreInert ==
    /\ [][(memory.disabled_due_to_size /\ m_ret'.op = "record") => db' = db]_vars
    /\ []((memory.disabled_due_to_size /\ m_ret.op = "fetch_recent") => m_ret.result = << >>)

\* C15: a maintenance cycle that finds the file back under the ceiling takes
\* the store out of the disabled state, and writes are accepted again without
\* any other command.
C15_RecoveryRestoresWrites ==
    [][(m_ret'.op = "maintain" /\ memory.disabled_due_to_size /\ ~db.oversize) =>
          (~memory'.disabled_due_to_size /\ memory'.allow_writes)]_vars

\* the three gates _execute_write tests before it opens a connection
WriteGatesOpen ==
    /\ memory.allow_writes
    /\ allow(memory._breaker, MemoryBreaker, clock, clock).result
    /\ Len(_prune_writes(memory._write_timestamps, clock)) < memory_max_writes_per_second

\* the step is a record() call over a storage engine behaving as `outcome`
RecordWith(outcome) == \E ts \in StimulusTimes, d \in 0..1 : Record("global", ts, outcome, d)

\* C19: a write commits only if writes are enabled, the breaker is not
\* tripped, the write rate is below its limit and the table is below its row
\* cap; a rejected or failed write leaves the stored data unchanged and
\* raises nothing; a commit records a breaker success, a storage failure
\* other than a lock timeout records a breaker failure
C19_WriteCommitsOnlyThroughGates ==
    [][\A outcome \in FaultOutcomes : RecordWith(outcome) =>
          /\ m_ret'.committed => (WriteGatesOpen /\ ~_table_over_limit(db, "memory"))
          /\ ~m_ret'.committed => db' = db
          /\ ~m_ret'.raised
          /\ m_ret'.committed =>
                memory'._breaker =
                    record_success(allow(memory._breaker, MemoryBreaker, clock, clock).b,
                                   MemoryBreaker, clock', clock')
          /\ (WriteGatesOpen /\ outcome = "error") =>
                memory'._breaker =
                    record_failure(allow(memory._breaker, MemoryBreaker, clock, clock).b,
                                   MemoryBreaker, "error", clock', clock')
          /\ outcome = "locked" =>
                memory'._breaker.failures = memory._breaker.failures]_vars

ReadOps == {"fetch_recent", "get_important", "get_user_profile"}

\* C20: no read operation of the store raises when the storage access
\* fails; it returns its empty or default result
C20_ReadsNeverRaise ==
    m_ret.op \in ReadOps => ~m_ret.raised

\* how many of the rows carry the timestamp ts
RowsAt(rows, ts) == Cardinality({i \in 1..Len(rows) : rows[i].ts = ts})

\* the timestamps of rows stored before the step and deleted by it
DeletedTs == {ts \in 0..MMaxTime : RowsAt(db'.memory, ts) < RowsAt(db.memory, ts)}

\* the rows are in non-decreasing timestamp order, in insertion order
Chronological(rows) == \A i, j \in 1..Len(rows) : i < j => rows[i].ts <= rows[j].ts

\* no row that survives the step is older than a row the step deleted
PrunedOldestFirst ==
    \A ts \in DeletedTs : \A i \in 1..Len(db'.memory) : db'.memory[i].ts >= ts

\* C26: the records of the memory table are in non-decreasing timestamp order
\* in the order they were inserted, and whenever a step (retention in record,
\* cap enforcement or rotation in maintain) deletes records, no surviving
\* record is older than a deleted one.
C26_ChronologicalAndOldestFirst ==
    /\ [](Chronological(db.memory))
    /\ [][PrunedOldestFirst]_vars

\* the write path with the maintenance thread running beside it
TableLimitNext ==
    \/ WriterNext
    \/ Maintain

\* the maintenance loop keeps cycling, the loop keeps handing interpretations
\* to the pool, the worker keeps running, and the storage engine lets a write
\* through again and again
TableLimitSpec ==
    /\ MemoryInit
    /\ [][TableLimitNext]_vars
    /\ WF_vars(Maintain)
    /\ WF_vars(\E k \in ImportantKeys : InterpretStart(k))
    /\ WF_vars(WorkerGate)
    /\ SF_vars(WorkerCommit("ok", 0))
    /\ WF_vars(InterpretDone)
    /\ WF_vars(WorkerExit)

\* C39: a table that has reached its row limit does not refuse writes for
\* ever: once a maintenance cycle has run over a store whose write gates
\* (writes enabled, breaker closed, rate below its limit) are open, either a
\* gate closes or a later write to the table, the update of the row it
\* already holds included, is committed.
C39_FullTableAcceptsAgain ==
    (m_ret.op = "maintain" /\ WriteGatesOpen /\ _table_over_limit(db, "user_important"))
        ~> (~WriteGatesOpen \/ (m_ret.op = "save_important" /\ m_ret.committed))

\* C40: the report of maintain() says disabled exactly when the store is in
\* the disabled state on return, and the maintenance loop has forced safe
\* mode by the end of the cycle that found the store disabled.
C40_ReportDisabledIsCurrent ==
    m_ret.op = "maintain" =>
        /\ m_ret.report.disabled <=> memory.disabled_due_to_size
        /\ memory.disabled_due_to_size => threads.safe_mode

----------------------------------------------------------------------------
(* Actions of the governor *)

\* the arguments of one call, and what the identity and the memory hold then
GovernorInit ==
    /\ clock = 0
    /\ SessionIdle
    /\ BreakerIdle
    /\ MemoryIdle
    /\ CognitionIdle
    /\ JournalIdle
    /\ LimiterIdle
    /\ PoolIdle
    /\ \E realities \in SeqsUpTo(RealityOutputs, MaxRealities), directed \in BOOLEAN,
          identity \in Identities, recent \in SeqsUpTo(Deltas, MaxRecent) :
             g_ret = GRet("call", realities, directed, identity, recent, NoDecision)

\* CognitionLoop._decide -> governor.deliberate(server_id, realities, directed)
Deliberate ==
    /\ g_ret.op = "call"
    /\ g_ret' = [g_ret EXCEPT !.op = "deliberate",
                              !.decision = deliberate(g_ret.realities, g_ret.directed,
                                                      g_ret.identity, g_ret.recent),
                              !.fetched = fetches_recent(g_ret.directed)]
    /\ UNCHANGED <<clock, nonGovernorVars>>

GovernorNext == Deliberate

GovernorSpec == GovernorInit /\ [][GovernorNext]_vars

----------------------------------------------------------------------------
(* Claims about the governor *)

\* the output deliberate's loop prefers: a recommended action whose score no
\* other beats, the first of them in list order
BestCandidate(r) ==
    {i \in 1..Len(r.realities) :
        /\ r.realities[i].recommended_action # NoAction
        /\ \A j \in 1..Len(r.realities) :
              r.realities[j].recommended_action # NoAction =>
                 /\ _score(r.realities[j], r.identity, r.recent)
                      <= _score(r.realities[i], r.identity, r.recent)
                 /\ j < i => _score(r.realities[j], r.identity, r.recent)
                               < _score(r.realities[i], r.identity, r.recent)}

RiskyAndUnsure(d, recent) == OverRiskThreshold(d.risk, recent) /\ d.confidence < 70

\* C10: deliberate never returns a decision with risk > 0.7 - 0.2 * memory_bias
\* and confidence < 0.7; when the best-scoring candidate has both, the decision
\* returned is the observe fallback (confidence 0.4, risk 0.05).
C10_RiskyCandidateReplaced ==
    g_ret.op = "deliberate" =>
        /\ ~RiskyAndUnsure(g_ret.decision, g_ret.recent)
        /\ g_ret.directed =>
              \A i \in BestCandidate(g_ret) :
                  RiskyAndUnsure(g_ret.realities[i], g_ret.recent)
                     => g_ret.decision = GovernorDecision(fallback, 40, 5, "risk exceeded confidence")

\* a directed call whose best candidate is risky and unsure came back as observe
C10_Witness ==
    /\ g_ret.op = "deliberate"
    /\ g_ret.directed
    /\ \E i \in BestCandidate(g_ret) : RiskyAndUnsure(g_ret.realities[i], g_ret.recent)
    /\ g_ret.decision.action = fallback

WithAction(r) == {i \in 1..Len(r.realities) : r.realities[i].recommended_action # NoAction}

\* C24: a directed call selects, among the outputs with a recommended action,
\* the first one in list order whose score is maximal, and returns its action,
\* confidence and risk unless the risk rule replaces it by the hold-position
\* observe decision; with no such output it returns the 'no strong
\* recommendation' observe decision (confidence 0.3, risk 0.1).
C24_MaximumScoreSelected ==
    (g_ret.op = "deliberate" /\ g_ret.directed) =>
        /\ g_ret.fetched
        /\ WithAction(g_ret) = {} =>
              g_ret.decision = GovernorDecision(fallback, 30, 10, "no recommendation")
        /\ WithAction(g_ret) # {} =>
              /\ Cardinality(BestCandidate(g_ret)) = 1
              /\ \A i \in BestCandidate(g_ret) :
                    LET output == g_ret.realities[i]
                        chosen == GovernorDecision(output.recommended_action,
                                                   output.confidence, output.risk,
                                                   "justification")
                    IN  IF RiskyAndUnsure(output, g_ret.recent)
                        THEN g_ret.decision =
                                GovernorDecision(fallback, 40, 5, "risk exceeded confidence")
                        ELSE g_ret.decision = chosen

\* C24 witness: two outputs of equal score but different confidence and risk,
\* with a memory bias that is not zero; the first was returned
C24_Witness ==
    /\ g_ret.op = "deliberate"
    /\ g_ret.directed
    /\ Len(g_ret.realities) = 2
    /\ WithAction(g_ret) = {1, 2}
    /\ g_ret.realities[1] # g_ret.realities[2]
    /\ _score(g_ret.realities[1], g_ret.identity, g_ret.recent)
          = _score(g_ret.realities[2], g_ret.identity, g_ret.recent)
    /\ Sum(g_ret.recent) # 0
    /\ g_ret.decision.confidence = g_ret.realities[1].confidence
    /\ g_ret.decision.risk = g_ret.realities[1].risk

\* the loop object with the given safe_mode and nothing else set
LoopIn(safe_mode) ==
    Self([NewState EXCEPT !.safe_mode = safe_mode], NewSafety, TRUE, NoOverride)

\* C23: deliberate called with directed = false returns the observe decision
\* with confidence 0.35 and risk 0.05 whatever the outputs are, without calling
\* fetch_recent; _decide and _act then turn it into an observe intent, in safe
\* mode or not.
C23_UndirectedObserves ==
    (g_ret.op = "deliberate" /\ ~g_ret.directed) =>
        /\ g_ret.decision.action = "observe"
        /\ g_ret.decision.confidence = 35
        /\ g_ret.decision.risk = 5
        /\ ~g_ret.fetched
        /\ \A safe_mode \in BOOLEAN :
              LET intent == _decide(safe_mode, g_ret.decision.action)
              IN  /\ intent = "observe"
                  /\ _act(LoopIn(safe_mode), << >>, intent).queue = <<"observe">>

\* C23 witness: an undirected call whose outputs recommend a reply, made while
\* the memory holds records
C23_Witness ==
    /\ g_ret.op = "deliberate"
    /\ ~g_ret.directed
    /\ \E i \in 1..Len(g_ret.realities) : g_ret.realities[i].recommended_action = "reply"
    /\ g_ret.recent # << >>
    /\ g_ret.decision.action = "observe"

----------------------------------------------------------------------------
(* Actions of the cognition loop.  One action is the code the loop coroutine *)
(* (or another task of the event loop) runs between two suspension points;   *)
(* while the tick is between awaits (pc "stimuli") no other task runs.       *)

SelfNow == Self(state, safety, memory.allow_writes, tick_interval_override)

Store(self) ==
    /\ state' = self.state
    /\ safety' = self.safety
    /\ memory' = [memory EXCEPT !.allow_writes = self.allow_writes]
    /\ tick_interval_override' = self.tick_interval_override

cognitionRest == <<clock, db, warm_archive, threads, commits, m_ret, nonCognitionVars>>

Suspended == tick.pc # "stimuli"
ScheduledTotal == scheduled.created + scheduled.sleeping + scheduled.blocked
Count(queue, type) == Cardinality({i \in 1..Len(queue) : queue[i] = type})

CognitionInit ==
    /\ clock = 0
    /\ SessionIdle
    /\ BreakerIdle
    /\ GovernorIdle
    /\ JournalIdle
    /\ LimiterIdle
    /\ PoolIdle
    /\ \E safe_mode_default \in BOOLEAN :
          /\ state = [NewState EXCEPT !.safe_mode = safe_mode_default]
          /\ memory = [NewMemory EXCEPT !.allow_writes = ~safe_mode_default]
    /\ db = NewDb
    /\ warm_archive = << >>
    /\ threads = [worker |-> "idle", key |-> "", awaiting |-> FALSE, safe_mode |-> FALSE]
    /\ commits = [prev |-> 0, cur |-> 0]
    /\ m_ret = MRet("init", FALSE, << >>, 0, NoReport, 0)
    /\ running = FALSE
    /\ safety = NewSafety
    /\ tick_interval_override = NoOverride
    /\ stimulus_queue = << >>
    /\ action_queue = << >>
    /\ tick = NewTick
    /\ scheduled = NewScheduled
    /\ c_ret = NoPut

\* start(): running = True, the first wait_for(_tick) is created
Start ==
    /\ tick.pc = "new"
    /\ running' = TRUE
    /\ tick' = [pc |-> "tick", stimuli |-> << >>]
    /\ c_ret' = NoPut
    /\ UNCHANGED <<state, safety, memory, tick_interval_override, stimulus_queue,
                   action_queue, scheduled, cognitionRest>>

\* _tick up to the end of _perceive: decay, deadline check, drain of the queue
TickBegin(late, silent) ==
    /\ tick.pc = "tick"
    /\ IF late
       THEN /\ Store(_record_overrun(SelfNow, "decay_budget_exhausted"))
            /\ tick' = [pc |-> "returned", stimuli |-> << >>]
            /\ UNCHANGED stimulus_queue
       ELSE LET drained == Take(stimulus_queue, max_stimuli_per_tick)
                rest == Drop(stimulus_queue, max_stimuli_per_tick)
                stimuli == IF drained = << >> /\ silent THEN <<"silence">> ELSE drained
            IN /\ stimulus_queue' = rest
               /\ Store(IF drained = << >> /\ Len(rest) > 0
                        THEN _record_overrun(SelfNow, "stimulus_queue_backlog")
                        ELSE SelfNow)
               /\ tick' = [pc |-> IF stimuli = << >> THEN "returned" ELSE "stimuli",
                           stimuli |-> stimuli]
    /\ c_ret' = NoPut
    /\ UNCHANGED <<running, action_queue, scheduled, cognitionRest>>

\* _decide, _act and _reflect for the stimulus at the head of the batch
Finish(self, choice, decide_raises, reflect_raises) ==
    LET kind == Head(tick.stimuli)
        act == _act(self, action_queue, _decide(self.state.safe_mode, choice))
        more == Tail(tick.stimuli)
    IN /\ tick' = [pc |-> IF more = << >> THEN "returned" ELSE "stimuli", stimuli |-> more]
       /\ IF decide_raises
          THEN /\ Store(self)
               /\ c_ret' = NoPut
               /\ UNCHANGED action_queue
          ELSE /\ action_queue' = act.queue
               /\ Store(IF act.full THEN act.self ELSE _reflect(act.self, kind, reflect_raises))
               /\ c_ret' = CRet("_act", choice, act.intent, act.full, act.safe_mode)

\* the top of the for loop: the deadline check, then either the await of the
\* interpreters or, for an ambient message, the rest of the iteration
StimulusBegin(late, decide_raises, reflect_raises) ==
    /\ tick.pc = "stimuli"
    /\ IF late
       THEN /\ Store(_record_overrun(SelfNow, "tick_budget_exceeded"))
            /\ tick' = [pc |-> "returned", stimuli |-> << >>]
            /\ c_ret' = NoPut
            /\ UNCHANGED action_queue
       ELSE IF Head(tick.stimuli) = "ambient"
       THEN Finish(SelfNow, "observe", decide_raises, reflect_raises)
       ELSE /\ tick' = [tick EXCEPT !.pc = "interpret"]
            /\ c_ret' = NoPut
            /\ UNCHANGED <<state, safety, memory, tick_interval_override, action_queue>>
    /\ UNCHANGED <<running, stimulus_queue, scheduled, cognitionRest>>

\* asyncio.wait returns: strategies still pending are an overrun; then the
\* deadline check and the rest of the iteration
InterpretResume(pending, late, choice, decide_raises, reflect_raises) ==
    /\ tick.pc = "interpret"
    /\ choice \in Choices(Head(tick.stimuli))
    /\ choice = "schedule" =>
          ScheduledTotal + Count(action_queue, "schedule") < MaxScheduled
    /\ LET self == IF pending THEN _record_overrun(SelfNow, "interpret_timeout") ELSE SelfNow
       IN IF late
          THEN /\ Store(_record_overrun(self, "interpret_budget_exceeded"))
               /\ tick' = [pc |-> "returned", stimuli |-> << >>]
               /\ c_ret' = NoPut
               /\ UNCHANGED action_queue
          ELSE Finish(self, choice, decide_raises, reflect_raises)

InterpretReturn(pending, late, choice, decide_raises, reflect_raises) ==
    /\ InterpretResume(pending, late, choice, decide_raises, reflect_raises)
    /\ UNCHANGED <<running, stimulus_queue, scheduled, cognitionRest>>

\* wait_for returns normally: the watchdog, then the sleep
TickReturn(sample) ==
    /\ tick.pc = "returned"
    /\ Store(_watchdog(SelfNow, sample, Len(stimulus_queue)))
    /\ tick' = [pc |-> "sleep", stimuli |-> << >>]
    /\ c_ret' = NoPut
    /\ UNCHANGED <<running, stimulus_queue, action_queue, scheduled, cognitionRest>>

\* wait_for gives up on a tick that is suspended: overrun, watchdog, sleep
TickTimeout(sample) ==
    /\ tick.pc \in {"tick", "interpret"}
    /\ Store(_watchdog(_record_overrun(SelfNow, "tick_timeout"), sample,
                       Len(stimulus_queue)))
    /\ tick' = [pc |-> "sleep", stimuli |-> << >>]
    /\ c_ret' = NoPut
    /\ UNCHANGED <<running, stimulus_queue, action_queue, scheduled, cognitionRest>>

\* an exception handler that gives up the loop instead of continuing
TickExceptionFatal(drained) ==
    /\ tick.pc = "tick"
    /\ stimulus_queue' = IF drained THEN Drop(stimulus_queue, max_stimuli_per_tick)
                         ELSE stimulus_queue
    /\ Store([SelfNow EXCEPT !.state.safe_mode = TRUE,
                             !.allow_writes = FALSE,
                             !.safety.last_overrun_reason = "tick_exception"])
    /\ running' = FALSE
    /\ tick' = [pc |-> "stopped", stimuli |-> << >>]
    /\ c_ret' = NoPut
    /\ UNCHANGED <<action_queue, scheduled, cognitionRest>>

\* _tick raises before its for loop (decay, session expiry, or routing and
\* echoes in _perceive, by then with the batch drained): safe mode, and
\* `continue` straight to the next wait_for
TickException(drained) ==
    /\ tick.pc = "tick"
    /\ stimulus_queue' = IF drained THEN Drop(stimulus_queue, max_stimuli_per_tick)
                         ELSE stimulus_queue
    /\ Store([SelfNow EXCEPT !.state.safe_mode = TRUE,
                             !.allow_writes = FALSE,
                             !.safety.last_overrun_reason = "tick_exception"])
    /\ tick' = [pc |-> "tick", stimuli |-> << >>]
    /\ c_ret' = NoPut
    /\ UNCHANGED <<running, action_queue, scheduled, cognitionRest>>

\* asyncio.sleep returns and `while self.running` starts the next tick
Wake ==
    /\ tick.pc = "sleep"
    /\ running
    /\ tick' = [pc |-> "tick", stimuli |-> << >>]
    /\ c_ret' = NoPut
    /\ UNCHANGED <<running, state, safety, memory, tick_interval_override, stimulus_queue,
                   action_queue, scheduled, cognitionRest>>

\* the loop task is cancelled at one of its awaits
Cancel ==
    /\ tick.pc \in {"tick", "interpret", "returned", "sleep"}
    /\ running' = FALSE
    /\ tick' = [pc |-> "stopped", stimuli |-> << >>]
    /\ c_ret' = NoPut
    /\ UNCHANGED <<state, safety, memory, tick_interval_override, stimulus_queue,
                   action_queue, scheduled, cognitionRest>>

\* DiscordAdapter._enqueue_stimulus
EnqueueStimulus(kind) ==
    /\ Suspended
    /\ LET put == put_nowait(stimulus_queue, stimulus_queue_limit, kind)
       IN /\ stimulus_queue' = put.queue
          /\ c_ret' = CRet("_enqueue_stimulus", "", kind, put.full, FALSE)
    /\ UNCHANGED <<running, state, safety, memory, tick_interval_override, action_queue,
                   tick, scheduled, cognitionRest>>

\* on_message, an admin says "exit safe mode"
ExitSafeMode ==
    /\ Suspended
    /\ Store(IF state.safe_mode
             THEN [SelfNow EXCEPT !.state.safe_mode = FALSE, !.allow_writes = TRUE]
             ELSE SelfNow)
    /\ c_ret' = NoPut
    /\ UNCHANGED <<running, stimulus_queue, action_queue, tick, scheduled, cognitionRest>>

\* on_message, an admin says "enter safe mode"
EnterSafeMode ==
    /\ Suspended
    /\ Store([SelfNow EXCEPT !.state.safe_mode = TRUE, !.allow_writes = FALSE])
    /\ c_ret' = NoPut
    /\ UNCHANGED <<running, stimulus_queue, action_queue, tick, scheduled, cognitionRest>>

\* the stimuli of one log scan, enqueued one by one
PutHealth(self, queue, n) ==
    LET F[i \in 0..n] ==
            IF i = 0 THEN [self |-> self, queue |-> queue, full |-> FALSE]
            ELSE LET put == put_nowait(F[i - 1].queue, stimulus_queue_limit, "health")
                 IN [self |-> IF put.full
                              THEN _record_overrun(F[i - 1].self, "health_stimulus_queue_full")
                              ELSE F[i - 1].self,
                     queue |-> put.queue,
                     full |-> F[i - 1].full \/ put.full]
    IN F[n]

\* one iteration of _health_monitor after its sleep, log ingestion being
\* configured on; `allowed` is what pm2_breaker.allow() returns, `scan` how scan_pm2_logs ends, n its stimuli
HealthMonitor(allowed, scan, n) ==
    /\ Suspended
    /\ running
    /\ ~state.safe_mode
    /\ ~safety.log_ingest_disabled
    /\ LET put == PutHealth(SelfNow, stimulus_queue, n)
       IN IF ~allowed
          THEN /\ Store([SelfNow EXCEPT !.safety.log_ingest_disabled = TRUE])
               /\ c_ret' = NoPut
               /\ UNCHANGED stimulus_queue
          ELSE IF scan = "raises"
          THEN /\ c_ret' = NoPut
               /\ UNCHANGED <<state, safety, memory, tick_interval_override, stimulus_queue>>
          ELSE IF scan = "slow"
          THEN /\ Store([SelfNow EXCEPT !.safety.log_ingest_disabled = TRUE,
                                        !.state.safe_mode = TRUE])
               /\ c_ret' = NoPut
               /\ UNCHANGED stimulus_queue
          ELSE /\ Store(put.self)
               /\ stimulus_queue' = put.queue
               /\ c_ret' = IF n > 0 THEN CRet("_health_monitor", "", "health", put.full, FALSE)
                           ELSE NoPut
    /\ UNCHANGED <<running, action_queue, tick, scheduled, cognitionRest>>

\* one iteration of _maintenance_loop: memory.maintain() on the maintenance
\* thread, then its report
MaintenanceLoop ==
    /\ Suspended
    /\ running
    /\ \E o \in maintain(memory, db, warm_archive) :
          /\ memory' = o.m
          /\ db' = o.db
          /\ warm_archive' = o.archive
          /\ state' = [state EXCEPT !.safe_mode = @ \/ o.report.disabled]
    /\ c_ret' = NoPut
    /\ UNCHANGED <<clock, running, safety, tick_interval_override, stimulus_queue,
                   action_queue, tick, scheduled, threads, commits, m_ret,
                   nonCognitionVars>>

\* the database file grows past, or shrinks below, memory_max_file_mb
FileSizeChange ==
    /\ Suspended
    /\ db' = [db EXCEPT !.oversize = ~@]
    /\ c_ret' = NoPut
    /\ UNCHANGED <<clock, running, state, safety, memory, tick_interval_override,
                   stimulus_queue, action_queue, tick, scheduled, warm_archive, threads,
                   commits, m_ret, nonCognitionVars>>

\* _action_executor takes an intent; _execute_intent refuses it when the rate
\* limiter denies it (`allowed` false) or safe mode blocks its type, and
\* _schedule creates a follow-up task
ActionExecutor(allowed) ==
    /\ Suspended
    /\ action_queue # << >>
    /\ action_queue' = Tail(action_queue)
    /\ scheduled' = IF Head(action_queue) = "schedule" /\ allowed /\ ~state.safe_mode
                    THEN [scheduled EXCEPT !.created = @ + 1] ELSE scheduled
    /\ c_ret' = NoPut
    /\ UNCHANGED <<running, state, safety, memory, tick_interval_override, stimulus_queue,
                   tick, cognitionRest>>

\* _run_scheduled starts: it gives up in safe mode, else it sleeps
RunScheduledStart ==
    /\ Suspended
    /\ scheduled.created > 0
    /\ scheduled' = IF state.safe_mode
                    THEN [scheduled EXCEPT !.created = @ - 1]
                    ELSE [scheduled EXCEPT !.created = @ - 1, !.sleeping = @ + 1]
    /\ c_ret' = NoPut
    /\ UNCHANGED <<running, state, safety, memory, tick_interval_override, stimulus_queue,
                   action_queue, tick, cognitionRest>>

\* _run_scheduled after its sleep: `await action_queue.put(...)`, which
\* returns at once when there is a free slot and waits for one otherwise
RunScheduledPut ==
    /\ Suspended
    /\ scheduled.sleeping > 0
    /\ LET put == put_nowait(action_queue, action_queue_limit, "reply")
       IN /\ action_queue' = put.queue
          /\ scheduled' = IF put.full
                          THEN [scheduled EXCEPT !.sleeping = @ - 1, !.blocked = @ + 1]
                          ELSE [scheduled EXCEPT !.sleeping = @ - 1]
          /\ c_ret' = CRet("_run_scheduled", "", "reply", put.full, FALSE)
    /\ UNCHANGED <<running, state, safety, memory, tick_interval_override, stimulus_queue,
                   tick, cognitionRest>>

\* a put that was waiting gets its slot
RunScheduledResume ==
    /\ Suspended
    /\ scheduled.blocked > 0
    /\ Len(action_queue) < action_queue_limit
    /\ action_queue' = Append(action_queue, "reply")
    /\ scheduled' = [scheduled EXCEPT !.blocked = @ - 1]
    /\ c_ret' = CRet("_run_scheduled", "", "reply", FALSE, FALSE)
    /\ UNCHANGED <<running, state, safety, memory, tick_interval_override, stimulus_queue,
                   tick, cognitionRest>>

\* the steps of the loop coroutine, with the deadline outcomes and the gauge
\* readings drawn from the given sets
Loop(lates, samples, choices) ==
    \/ Start
    \/ \E late \in lates, silent \in BOOLEAN : TickBegin(late, silent)
    \/ \E late \in lates, dr, rr \in BOOLEAN : StimulusBegin(late, dr, rr)
    \/ \E pending, late \in lates, dr, rr \in BOOLEAN, choice \in choices :
          InterpretReturn(pending, late, choice, dr, rr)
    \/ \E sample \in samples : TickReturn(sample)
    \/ \E sample \in samples : TickTimeout(sample)
    \/ \E drained \in BOOLEAN : TickException(drained)
    \/ Wake

\* gauge readings explored inside the loop: calm, or the CPU over its threshold
LoopSamples == {s \in Samples : ~s.rss /\ s.elapsed = 0}
CalmSamples == {s \in Samples : ~s.cpu /\ ~s.rss /\ s.elapsed = 0}

\* the loop with its background tasks and the admin commands
CognitionNext ==
    \/ Loop(BOOLEAN, LoopSamples, IntentTypes)
    \/ Cancel
    \/ ExitSafeMode
    \/ EnterSafeMode
    \/ \E allowed \in BOOLEAN, scan \in {"raises", "slow", "ok"}, n \in 0..2 :
          HealthMonitor(allowed, scan, n)
    \/ MaintenanceLoop
    \/ FileSizeChange

CognitionSpec == CognitionInit /\ [][CognitionNext]_vars

\* the two queues with their producers and consumers, ticks within budget
\* the intent types the governor hands over in the runs with the adapter
QueueChoices == {"observe", "reply", "tool_call", "schedule"}

QueueNext ==
    \/ Loop({FALSE}, CalmSamples, QueueChoices)
    \/ \E kind \in AdapterKinds : EnqueueStimulus(kind)
    \/ ExitSafeMode
    \/ \E allowed \in BOOLEAN : ActionExecutor(allowed)
    \/ RunScheduledStart
    \/ RunScheduledPut
    \/ RunScheduledResume

QueueSpec == CognitionInit /\ [][QueueNext]_vars

\* the loop coroutine is resumed when its sleep is over
CognitionLiveSpec == CognitionSpec /\ WF_vars(Wake)

\* one call of the watchdog at the end of a tick, from any state the loop
\* object and the stimulus queue can be in by then
WatchdogInit ==
    /\ clock = 0
    /\ SessionIdle
    /\ BreakerIdle
    /\ GovernorIdle
    /\ JournalIdle
    /\ LimiterIdle
    /\ PoolIdle
    /\ \E safe_mode, allow_writes \in BOOLEAN :
          /\ \E note \in {<< >>, <<"cpu_load">>} :
                /\ state = [NewState EXCEPT !.safe_mode = safe_mode, !.watchdog_note = note]
                /\ safety = [NewSafety EXCEPT !.last_watchdog_reason = note]
                /\ tick_interval_override \in
                      IF note = << >> THEN {NoOverride}
                      ELSE {NoOverride, watchdog_safe_tick_interval}
          /\ memory = [NewMemory EXCEPT !.allow_writes = allow_writes]
    /\ db = NewDb
    /\ warm_archive = << >>
    /\ threads = [worker |-> "idle", key |-> "", awaiting |-> FALSE, safe_mode |-> FALSE]
    /\ commits = [prev |-> 0, cur |-> 0]
    /\ m_ret = MRet("init", FALSE, << >>, 0, NoReport, 0)
    /\ running = TRUE
    /\ stimulus_queue \in SeqsUpTo(AdapterKinds, stimulus_queue_limit)
    /\ action_queue = << >>
    /\ tick = [pc |-> "returned", stimuli |-> << >>]
    /\ scheduled = NewScheduled
    /\ c_ret = NoPut

WatchdogNext == \E sample \in Samples : TickReturn(sample)

WatchdogSpec == WatchdogInit /\ [][WatchdogNext]_vars

----------------------------------------------------------------------------
(* Claims about the cognition loop *)

\* C11: no step of the loop, of the watchdog, of the overrun handling, of the
\* health monitor or of the maintenance loop takes safe_mode from true to
\* false; the only step that does is the admin's "exit safe mode" command.
C11_OnlyAdminExitsSafeMode ==
    [][(state.safe_mode /\ ~state'.safe_mode) => ExitSafeMode]_vars

\* overrun handling, watchdog, health monitor and maintenance loop have all
\* acted, and safe mode is still on
C11_Witness ==
    /\ state.safe_mode
    /\ state.overrun_note = "tick_timeout"
    /\ state.watchdog_note # << >>
    /\ safety.log_ingest_disabled
    /\ memory.disabled_due_to_size
    /\ tick.pc = "tick"

TickFault ==
    \/ \E sample \in LoopSamples : TickTimeout(sample)
    \/ \E drained \in BOOLEAN : TickException(drained)

\* C12: a tick that times out or raises leaves the loop alive (running
\* unchanged, not stopped) with safe_mode true, and from the sleep that
\* follows a faulted tick another tick is started unless the loop is cancelled.
C12_FaultedTickContained ==
    /\ [][TickFault => (state'.safe_mode /\ running' = running /\ running'
                        /\ tick'.pc \in {"sleep", "tick"})]_vars
    /\ ((tick.pc = "sleep" /\ safety.last_overrun_reason \in {"tick_timeout", "tick_exception"})
          ~> (tick.pc = "tick" \/ ~running))

\* a tick timed out, the loop slept and has started the next tick
C12_Witness ==
    /\ tick.pc = "tick"
    /\ running
    /\ state.safe_mode
    /\ state.overrun_note = "tick_timeout"

\* C13: an intent the loop puts on the action queue while safe_mode is true
\* has type observe, reply or send_message; a tool_call, react, defer or
\* schedule choice made in safe mode is enqueued as observe.
C13_SafeModeIntentsConversational ==
    (c_ret.op = "_act" /\ c_ret.safe_mode) =>
        /\ c_ret.intent \in {"observe", "reply", "send_message"}
        /\ c_ret.choice \in {"tool_call", "react", "defer", "schedule"} =>
               c_ret.intent = "observe"
        /\ ~c_ret.full => /\ action_queue # << >>
                          /\ action_queue[Len(action_queue)] = c_ret.intent

\* in safe mode the governor chose a tool call and an observe was enqueued
C13_Witness ==
    /\ c_ret.op = "_act"
    /\ c_ret.safe_mode
    /\ c_ret.choice = "tool_call"
    /\ ~c_ret.full
    /\ action_queue = <<"observe">>

\* some gauge of the reading is over its threshold, for the loop as it is now
Overloaded(sample) ==
    \/ sample.cpu
    \/ sample.rss
    \/ sample.elapsed - (IF tick_interval_override # NoOverride
                         THEN Max(tick_interval_override,
                                  IF state.safe_mode THEN safe_mode_tick_interval_seconds
                                  ELSE tick_interval_seconds)
                         ELSE IF state.safe_mode THEN safe_mode_tick_interval_seconds
                         ELSE tick_interval_seconds) > watchdog_event_loop_lag
    \/ Len(stimulus_queue) > watchdog_queue_depth

\* C17: when the watchdog finds CPU load, resident memory, loop lag or queue
\* depth over its threshold, then on return safe_mode is true, allow_writes
\* is false, tick_interval_override is watchdog_safe_tick_interval and a
\* non-empty reason is recorded; when none is over, it changes none of them.
C17_WatchdogThrottles ==
    [][\A sample \in Samples : TickReturn(sample) =>
          IF Overloaded(sample)
          THEN /\ state'.safe_mode
               /\ ~memory'.allow_writes
               /\ tick_interval_override' = watchdog_safe_tick_interval
               /\ state'.watchdog_note # << >>
               /\ safety'.last_watchdog_reason = state'.watchdog_note
          ELSE /\ state' = state
               /\ memory' = memory
               /\ tick_interval_override' = tick_interval_override
               /\ safety' = safety]_vars

\* the watchdog found every gauge over its threshold and throttled a loop
\* that was neither in safe mode nor slowed before
C17_Witness ==
    /\ tick.pc = "sleep"
    /\ state.safe_mode
    /\ ~memory.allow_writes
    /\ tick_interval_override = watchdog_safe_tick_interval
    /\ state.watchdog_note = <<"cpu_load", "rss_mb", "loop_lag", "stimuli_backlog">>

\* C18: every producer of the stimulus queue and of the action queue gives up
\* on a full queue instead of waiting (no producer is ever blocked in a put),
\* and every put that finds its queue full forces safe_mode true.
C18_OverflowDropsAndForcesSafeMode ==
    /\ scheduled.blocked = 0
    /\ c_ret.full => state.safe_mode

\* what one call takes from the front of a queue
Removed(before, after) == SubSeq(before, 1, Len(before) - Len(after))

\* C25: a tick takes at most max_stimuli_per_tick stimuli, from the front of
\* the stimulus queue and in queue order; it decides them one after another in
\* that order; each decided stimulus puts at most one intent, at the back of
\* the action queue, and the action queue is only ever consumed at the front,
\* so the intents of a tick lie on it in the order of their stimuli.
C25_TickKeepsOrder ==
    [][ /\ (tick.pc = "tick" /\ tick'.pc \in {"stimuli", "returned"}) =>
              /\ Len(stimulus_queue') <= Len(stimulus_queue)
              /\ Len(Removed(stimulus_queue, stimulus_queue')) <= max_stimuli_per_tick
              /\ Removed(stimulus_queue, stimulus_queue') \o stimulus_queue' = stimulus_queue
              /\ tick'.stimuli \in {Removed(stimulus_queue, stimulus_queue'), <<"silence">>}
              /\ action_queue' = action_queue
        /\ (tick.pc \in {"stimuli", "interpret"}) =>
              /\ tick'.stimuli \in {tick.stimuli, Tail(tick.stimuli), << >>}
              /\ stimulus_queue' = stimulus_queue \/ tick' = tick
        /\ (c_ret'.op = "_act") =>
              /\ tick.stimuli # << >>
              /\ tick'.stimuli = Tail(tick.stimuli)
              /\ action_queue' = IF c_ret'.full THEN action_queue
                                 ELSE Append(action_queue, c_ret'.intent)
        /\ \/ action_queue' = action_queue
           \/ action_queue # << >> /\ action_queue' = Tail(action_queue)
           \/ \E type \in IntentTypes : action_queue' = Append(action_queue, type)
      ]_vars

\* C25 witness: a tick took two of three queued stimuli, an ambient and a
\* directed one, and their intents lie on the action queue in that order
C25_Witness ==
    /\ tick.pc = "returned"
    /\ c_ret.op = "_act"
    /\ c_ret.choice = "reply"
    /\ ~c_ret.full
    /\ action_queue = <<"observe", "reply">>
    /\ stimulus_queue # << >>

\* the watchdog was called on the way out of the tick: the loop is at its
\* sleep, and a backlog over watchdog_queue_depth, which the watchdog reads
\* from the queue itself, has been recorded with the stretched interval
WatchdogChecked ==
    /\ tick'.pc = "sleep"
    /\ Len(stimulus_queue') > watchdog_queue_depth =>
          /\ state'.safe_mode
          /\ tick_interval_override' = watchdog_safe_tick_interval
          /\ \E i \in 1..Len(state'.watchdog_note) :
                state'.watchdog_note[i] = "stimuli_backlog"

\* C29: the watchdog check runs at the end of every tick: one that returned
\* normally, one that hit the tick timeout, and one abandoned because of an
\* uncaught exception.
C29_WatchdogEveryTick ==
    [][\A sample \in Samples, drained \in BOOLEAN :
          (TickReturn(sample) \/ TickTimeout(sample) \/ TickException(drained))
             => WatchdogChecked]_vars

\* the interval the loop sleeps for, from the fields the next sleep will read
TickIntervalNext ==
    _current_tick_interval(Self(state', safety', memory'.allow_writes,
                                tick_interval_override'))

\* C30: the tick interval is max(base, override), base being the safe-mode
\* interval in safe mode and the normal interval otherwise; the override is
\* in force only while the watchdog reports overload: a watchdog check that
\* finds no gauge over its threshold leaves no override behind, and with safe
\* mode exited the interval is the normal one again.
C30_OverrideOnlyWhileOverloaded ==
    /\ [](_current_tick_interval(SelfNow) =
            Max(IF state.safe_mode THEN safe_mode_tick_interval_seconds
                ELSE tick_interval_seconds,
                IF tick_interval_override = NoOverride THEN 0
                ELSE tick_interval_override))
    /\ [][\A sample \in Samples : (TickReturn(sample) /\ ~Overloaded(sample)) =>
            /\ tick_interval_override' = NoOverride
            /\ ~state'.safe_mode => TickIntervalNext = tick_interval_seconds]_vars

\* ActionResult.success of the _act call c_ret describes
success(r) == ~r.full

\* a step in which _act ran for the stimulus at the head of the batch
ActStep == c_ret'.op = "_act" /\ tick' # tick

\* C32: when the action queue is full at enqueue time the intent is dropped
\* (the queue is unchanged and the batch moves on to the next stimulus, so
\* nothing is enqueued again for this one), the ActionResult has success =
\* false, "action_queue_full" is the recorded overrun, safe_mode is true and
\* memory writes are disabled afterwards, and the tick goes on; with room in
\* the queue the intent is appended and success is true.
C32_FullActionQueueDrops ==
    [][ActStep =>
          IF Len(action_queue) >= action_queue_limit
          THEN /\ ~success(c_ret')
               /\ action_queue' = action_queue
               /\ safety'.last_overrun_reason = "action_queue_full"
               /\ state'.overrun_note = "action_queue_full"
               /\ state'.safe_mode
               /\ ~memory'.allow_writes
               /\ running' = running
               /\ tick'.stimuli = Tail(tick.stimuli)
               /\ tick'.pc = IF tick'.stimuli = << >> THEN "returned" ELSE "stimuli"
          ELSE /\ success(c_ret')
               /\ action_queue' = Append(action_queue, c_ret'.intent)]_vars

\* a reply found the action queue full while the batch held another stimulus:
\* the loop is in safe mode with writes off and goes on with the batch
C32_Witness ==
    /\ c_ret.op = "_act"
    /\ ~success(c_ret)
    /\ c_ret.intent = "reply"
    /\ ~c_ret.safe_mode
    /\ tick.pc = "stimuli"
    /\ tick.stimuli # << >>
    /\ running
    /\ Len(action_queue) = action_queue_limit
    /\ safety.last_overrun_reason = "action_queue_full"
    /\ state.safe_mode
    /\ ~memory.allow_writes

\* C36: in every reachable state of the running system safe_mode = true
\* implies memory.allow_writes = false: every path that forces safe mode also
\* disables memory writes.
C36_SafeModeImpliesWritesOff ==
    (running /\ state.safe_mode) => ~memory.allow_writes

\* C37: no stimulus is lost by the loop: what a tick takes off the stimulus
\* queue becomes its batch, and a stimulus leaves the batch only from the
\* front and through an enqueue attempt of _act for it, also when the
\* deadline passes or interpretation times out earlier in the batch.
C37_EveryStimulusReachesAct ==
    [][ /\ Len(stimulus_queue') < Len(stimulus_queue) =>
              tick'.stimuli = Take(stimulus_queue, Len(stimulus_queue) - Len(stimulus_queue'))
        /\ (tick.stimuli \notin {<< >>, <<"silence">>} /\ tick'.stimuli # tick.stimuli) =>
              /\ tick'.stimuli = Tail(tick.stimuli)
              /\ c_ret'.op = "_act"
      ]_vars

----------------------------------------------------------------------------
(* Actions of the action journal *)

JournalInit ==
    /\ clock = 0
    /\ SessionIdle
    /\ BreakerIdle
    /\ MemoryIdle
    /\ GovernorIdle
    /\ CognitionIdle
    /\ JournalIdle
    /\ LimiterIdle
    /\ PoolIdle

\* ActionJournal.record(user_id, ..., reversible)
JournalRecord(user, reversible) ==
    /\ j_log.count < MaxRecords
    /\ LET entry == [n |-> j_log.count + 1, reversible |-> reversible]
       IN /\ _entries' = [_entries EXCEPT ![user] = journal_record(@, entry)]
          /\ j_log' = [count |-> j_log.count + 1,
                       kept |-> [j_log.kept EXCEPT ![user] = Append(@, entry)]]
          /\ j_ret' = JRet("record", user, entry)
    /\ UNCHANGED <<clock, nonJournalVars>>

\* ActionJournal.last(user_id)
JournalLast(user) ==
    /\ j_ret' = JRet("last", user, last(_entries[user]))
    /\ UNCHANGED <<clock, _entries, j_log, nonJournalVars>>

\* ActionJournal.last_reversible(user_id)
JournalLastReversible(user) ==
    /\ j_ret' = JRet("last_reversible", user, last_reversible(_entries[user]))
    /\ UNCHANGED <<clock, _entries, j_log, nonJournalVars>>

\* ActionJournal.pop_last_reversible(user_id)
JournalPopLastReversible(user) ==
    /\ LET pop == pop_last_reversible(_entries[user])
       IN /\ _entries' = [_entries EXCEPT ![user] = pop.bucket]
          /\ j_log' = [j_log EXCEPT !.kept[user] = SelectSeq(@, LAMBDA x : x # pop.entry)]
          /\ j_ret' = JRet("pop_last_reversible", user, pop.entry)
    /\ UNCHANGED <<clock, nonJournalVars>>

JournalNext ==
    \/ \E user \in JournalUsers, reversible \in BOOLEAN : JournalRecord(user, reversible)
    \/ \E user \in JournalUsers : JournalLast(user)
    \/ \E user \in JournalUsers : JournalLastReversible(user)
    \/ \E user \in JournalUsers : JournalPopLastReversible(user)

JournalSpec == JournalInit /\ [][JournalNext]_vars

----------------------------------------------------------------------------
(* Claims about the action journal *)

IsSuffix(s, t) == Len(s) <= Len(t) /\ s = SubSeq(t, Len(t) - Len(s) + 1, Len(t))

\* the entry of the bucket that was recorded last
Newest(bucket) ==
    IF bucket = << >> THEN NoEntry
    ELSE CHOOSE x \in {bucket[i] : i \in 1..Len(bucket)} :
            \A i \in 1..Len(bucket) : bucket[i].n <= x.n

\* C16: after any sequence of record and pop_last_reversible calls each
\* user's bucket holds at most max_entries_per_user entries, and they are the
\* newest of the user's entries that were recorded and not popped, in
\* recording order; last() returns the one recorded last; a record evicts the
\* oldest entry of a full bucket and nothing else.
C16_BucketBoundedNewestKept ==
    /\ [](\A u \in JournalUsers :
            /\ Len(_entries[u]) <= max_entries_per_user
            /\ IsSuffix(_entries[u], j_log.kept[u]))
    /\ [](j_ret.op = "last" => j_ret.entry = Newest(_entries[j_ret.user]))
    /\ [][\A u \in JournalUsers, r \in BOOLEAN : JournalRecord(u, r) =>
            /\ _entries'[u] =
                  Append(IF Len(_entries[u]) = max_entries_per_user
                         THEN Tail(_entries[u]) ELSE _entries[u],
                         [n |-> j_log.count + 1, reversible |-> r])
            /\ \A v \in JournalUsers \ {u} : _entries'[v] = _entries[v]]_vars

\* three records, the newest popped, a fourth recorded: the bucket holds the
\* second and the fourth, and last() returns the fourth
C16_Witness ==
    /\ j_ret.op = "last"
    /\ j_ret.user = "1"
    /\ j_ret.entry.n = 4
    /\ Len(_entries["1"]) = 2
    /\ _entries["1"][1].n = 2
    /\ Len(j_log.kept["1"]) = 3

EntrySet(bucket) == {bucket[i] : i \in 1..Len(bucket)}

\* C28: pop_last_reversible(user) removes and returns the reversible entry of
\* the user's bucket that was recorded last, leaving every other entry of the
\* bucket (later non-reversible ones included) in place and in order and the
\* other users' buckets alone; with no reversible entry in the bucket it
\* returns None and changes nothing; the returned entry was never popped
\* before and is gone from the journal afterwards.
C28_PopsNewestReversibleOnce ==
    [][\A u \in JournalUsers : JournalPopLastReversible(u) =>
         LET bucket == _entries[u]
             reversibles == {x \in EntrySet(bucket) : x.reversible}
         IN /\ \A v \in JournalUsers \ {u} : _entries'[v] = _entries[v]
            /\ IF reversibles = {}
               THEN /\ j_ret'.entry = NoEntry
                    /\ _entries'[u] = bucket
               ELSE /\ j_ret'.entry \in reversibles
                    /\ \A x \in reversibles : x.n <= j_ret'.entry.n
                    /\ _entries'[u] = SelectSeq(bucket, LAMBDA x : x # j_ret'.entry)
                    /\ Len(_entries'[u]) = Len(bucket) - 1
                    /\ j_ret'.entry \in EntrySet(j_log.kept[u])
                    /\ \A v \in JournalUsers : j_ret'.entry \notin EntrySet(_entries'[v])
                    /\ j_ret'.entry \notin EntrySet(j_log'.kept[u])]_vars

\* a reversible entry and then a non-reversible one were recorded for a user;
\* the pop returned the first and left the second
C28_Witness ==
    /\ j_ret.op = "pop_last_reversible"
    /\ j_ret.user = "user"
    /\ j_ret.entry = [n |-> 1, reversible |-> TRUE]
    /\ _entries["user"] = <<[n |-> 2, reversible |-> FALSE]>>
    /\ _entries["1"] # << >>

----------------------------------------------------------------------------
(* Actions of the rate limiter *)

LimiterInit ==
    /\ clock = 0
    /\ SessionIdle
    /\ BreakerIdle
    /\ MemoryIdle
    /\ GovernorIdle
    /\ CognitionIdle
    /\ JournalIdle
    /\ LimiterIdle
    /\ PoolIdle

LimiterTick(t) ==
    /\ t > clock
    /\ clock' = t
    /\ l_ret' = LRet("tick", "", t, FALSE)
    /\ UNCHANGED <<actions, l_log, nonLimiterVars>>

LimiterAllow(key) ==
    /\ LET r == limiter_allow(actions, key, clock) IN
       /\ actions' = r.actions
       /\ l_log' = IF r.result THEN [l_log EXCEPT ![key] = Append(@, clock)] ELSE l_log
       /\ l_ret' = LRet("allow", key, clock, r.result)
    /\ UNCHANGED <<clock, nonLimiterVars>>

LimiterNext ==
    \/ \E t \in LimiterInstants : LimiterTick(t)
    \/ \E key \in LimiterKeys : LimiterAllow(key)

LimiterSpec == LimiterInit /\ [][LimiterNext]_vars

----------------------------------------------------------------------------
(* Claims about the rate limiter *)

\* how many of the grants of the log fall in [from, from + span)
GrantsIn(log, from, span) ==
    Cardinality({i \in 1..Len(log) : from <= log[i] /\ log[i] < from + span})

\* C27: for each key, allow(key) returns true at most max_actions_per_minute
\* times in any 60-second window [T, T+60) and at most action_burst times in
\* any 5-second window [T, T+5); a call that returns false adds no timestamp
\* for its key; and a call made when fewer than max_actions_per_minute grants
\* lie less than 60 s back and fewer than action_burst less than 5 s back
\* returns true.  Other keys are never touched.
C27_RateLimiterWindows ==
    /\ [](\A key \in LimiterKeys : \A T \in 0..LMaxTime :
            /\ GrantsIn(l_log[key], T, window) <= max_actions_per_minute
            /\ GrantsIn(l_log[key], T, burst_window) <= action_burst)
    /\ [][ l_ret'.op = "allow" =>
            LET key == l_ret'.key IN
            /\ \A other \in LimiterKeys \ {key} : actions'[other] = actions[other]
            /\ ~l_ret'.result =>
                  /\ Len(actions'[key]) <= Len(actions[key])
                  /\ \A i \in 1..Len(actions'[key]) :
                        \E j \in 1..Len(actions[key]) : actions[key][j] = actions'[key][i]
            /\ l_ret'.result <=>
                  /\ GrantsIn(l_log[key], clock - window + 1, window) < max_actions_per_minute
                  /\ GrantsIn(l_log[key], clock - burst_window + 1, burst_window) < action_burst
          ]_vars

\* C27 witness: a key was denied by the minute cap, and is granted again once
\* its first grants are 60 seconds old
C27_Witness ==
    /\ l_ret.op = "allow"
    /\ l_ret.result
    /\ Len(l_log[l_ret.key]) = max_actions_per_minute + 1
    /\ l_ret.now - l_log[l_ret.key][1] >= window
    /\ l_ret.now - l_log[l_ret.key][2] < window + burst_window

----------------------------------------------------------------------------
(* Actions of the interpreter pool *)

budgetVars == <<llm_calls_remaining, workers, awaited, replies>>
poolRest == <<clock, db, warm_archive, threads, commits, m_ret, sessionVars, breakerVars,
              governorVars, journalVars, limiterVars>>

\* the loop awaits asyncio.wait in _interpret for the first stimulus of its
\* batch, with the futures in any state the wait can return them in
InterpretInit ==
    /\ clock = 0
    /\ SessionIdle
    /\ BreakerIdle
    /\ GovernorIdle
    /\ JournalIdle
    /\ LimiterIdle
    /\ \E safe_mode, allow_writes \in BOOLEAN :
          /\ state = [NewState EXCEPT !.safe_mode = safe_mode]
          /\ memory = [NewMemory EXCEPT !.allow_writes = allow_writes]
    /\ safety = NewSafety
    /\ tick_interval_override = NoOverride
    /\ db = NewDb
    /\ warm_archive = << >>
    /\ threads = [worker |-> "idle", key |-> "", awaiting |-> FALSE, safe_mode |-> FALSE]
    /\ commits = [prev |-> 0, cur |-> 0]
    /\ m_ret = MRet("init", FALSE, << >>, 0, NoReport, 0)
    /\ running = TRUE
    /\ stimulus_queue = << >>
    /\ action_queue \in {<< >>, [i \in 1..action_queue_limit |-> "observe"]}
    /\ tick \in {[pc |-> "interpret", stimuli |-> <<"directed">>],
                 [pc |-> "interpret", stimuli |-> <<"directed", "ambient">>]}
    /\ scheduled = NewScheduled
    /\ c_ret = NoPut
    /\ futures \in [Strategies -> FutureStates]
    /\ i_ret = IRet("init", [s \in Strategies |-> "done"], FALSE, {})
    /\ BudgetIdle

\* _interpret from the return of asyncio.wait, and the rest of the iteration
\* of _tick: the outputs of the done futures, cancel() and the overrun for
\* the pending ones, the deadline check, then _decide with the outputs
Interpret(late, choice, decide_raises, reflect_raises) ==
    /\ (interpret_outputs(futures) = {}) =>
          \E identity \in Identities : choice = deliberate(<< >>, TRUE, identity, << >>).action
    /\ InterpretResume(Pending(futures) # {}, late, choice, decide_raises, reflect_raises)
    /\ futures' = cancel_pending(futures)
    /\ i_ret' = IRet("_interpret", futures, ~late,
                     IF late THEN {} ELSE interpret_outputs(futures))
    /\ UNCHANGED <<running, stimulus_queue, scheduled, poolRest, budgetVars>>

InterpretNext ==
    \E late, decide_raises, reflect_raises \in BOOLEAN, choice \in IntentTypes :
        Interpret(late, choice, decide_raises, reflect_raises)

InterpretSpec == InterpretInit /\ [][InterpretNext]_vars

----------------------------------------------------------------------------
(* Claims about the interpreter pool *)

\* an _interpret call has returned with at least one strategy still pending
TimedOut == i_ret.op = "_interpret" /\ Pending(i_ret.found) # {}

\* the statement with the overrun reason as the one that stands after the call
C31_TimeoutReasonStands ==
    TimedOut =>
        /\ \A s \in Pending(i_ret.found) : futures[s] = "cancelled"
        /\ i_ret.interpretations \subseteq {s \in Strategies : i_ret.found[s] = "done"}
        /\ safety.last_overrun_reason = "interpret_timeout"
        /\ state.safe_mode
        /\ ~memory.allow_writes

\* C31: when at least one strategy is still pending when the wait in
\* _interpret ends, every pending future is cancelled and no other, the
\* "interpret_timeout" overrun is recorded (safe mode forced, memory writes
\* disabled), and _decide is given the outputs of exactly the strategies that
\* completed; the reason stands unless the deadline check that follows finds
\* the deadline passed, which replaces it by "interpret_budget_exceeded" and
\* ends the tick without using any output, or the enqueue finds the action
\* queue full, which replaces it by "action_queue_full".
C31_PendingCancelledTimeoutRecorded ==
    TimedOut =>
        /\ \A s \in Strategies :
              futures[s] = IF i_ret.found[s] = "pending" THEN "cancelled" ELSE i_ret.found[s]
        /\ state.safe_mode
        /\ ~memory.allow_writes
        /\ IF i_ret.decided
           THEN /\ i_ret.interpretations = {s \in Strategies : i_ret.found[s] = "done"}
                /\ safety.last_overrun_reason =
                      IF c_ret.full THEN "action_queue_full" ELSE "interpret_timeout"
           ELSE /\ i_ret.interpretations = {}
                /\ tick = [pc |-> "returned", stimuli |-> << >>]
                /\ safety.last_overrun_reason = "interpret_budget_exceeded"
        /\ state.overrun_note = safety.last_overrun_reason

\* one strategy completed, one raised and one was pending; the deadline had
\* passed and the tick ended with the completed output unused
C31_Witness ==
    /\ TimedOut
    /\ i_ret.found = [s \in Strategies |->
                         IF s = "social" THEN "pending"
                         ELSE IF s = "tools" THEN "done" ELSE "raised"]
    /\ futures["social"] = "cancelled"
    /\ ~i_ret.decided
    /\ safety.last_overrun_reason = "interpret_budget_exceeded"

----------------------------------------------------------------------------
(* Actions of the LLM-call budget: the loop's reset and the social         *)
(* strategy's test and decrement, which run in executor threads on the     *)
(* shared InternalState without a lock                                     *)

budgetRest == <<futures, i_ret, state, safety, tick_interval_override, stimulus_queue,
                action_queue, tick, scheduled, c_ret, memory, poolRest>>

BudgetInit ==
    /\ clock = 0
    /\ SessionIdle
    /\ BreakerIdle
    /\ MemoryIdle
    /\ GovernorIdle
    /\ CognitionIdle
    /\ JournalIdle
    /\ LimiterIdle
    /\ PoolIdle

\* start(): the top of the while loop, before wait_for(_tick)
BudgetReset ==
    /\ awaited = 0
    /\ running' = TRUE
    /\ llm_calls_remaining' = max_llm_calls_per_tick
    /\ replies' = 0
    /\ UNCHANGED <<workers, awaited, budgetRest>>

\* _interpret: run_in_executor(reality.interpret, stimulus, self.state, ...)
\* and the await of asyncio.wait
SubmitSocial(w) ==
    /\ running
    /\ awaited = 0
    /\ workers[w].pc = "idle"
    /\ workers' = [workers EXCEPT ![w] = Worker("check", "")]
    /\ awaited' = w
    /\ UNCHANGED <<running, llm_calls_remaining, replies, budgetRest>>

\* the thread reaches `if state.llm_calls_remaining <= 0`
SocialCheck(w) ==
    /\ workers[w].pc = "check"
    /\ workers' = [workers EXCEPT ![w] =
                      IF budget_exhausted(llm_calls_remaining)
                      THEN Worker("done", "observe") ELSE Worker("decrement", "")]
    /\ UNCHANGED <<running, llm_calls_remaining, awaited, replies, budgetRest>>

\* the thread runs the else branch: the decrement and the reply intent
SocialDecrement(w) ==
    /\ workers[w].pc = "decrement"
    /\ llm_calls_remaining' = llm_calls_remaining - 1
    /\ workers' = [workers EXCEPT ![w] = Worker("done", "reply")]
    /\ replies' = replies + 1
    /\ UNCHANGED <<running, awaited, budgetRest>>

\* asyncio.wait returns with the future done
WaitDone ==
    /\ awaited \in WorkerIds
    /\ workers[awaited].pc = "done"
    /\ workers' = [workers EXCEPT ![awaited] = IdleWorker]
    /\ awaited' = 0
    /\ UNCHANGED <<running, llm_calls_remaining, replies, budgetRest>>

\* asyncio.wait times out: cancel() does not stop a thread that is running
WaitTimeout ==
    /\ awaited \in WorkerIds
    /\ workers[awaited].pc # "done"
    /\ awaited' = 0
    /\ UNCHANGED <<running, llm_calls_remaining, workers, replies, budgetRest>>

\* a thread nobody awaits any more returns
StaleReturn(w) ==
    /\ awaited # w
    /\ workers[w].pc = "done"
    /\ workers' = [workers EXCEPT ![w] = IdleWorker]
    /\ UNCHANGED <<running, llm_calls_remaining, awaited, replies, budgetRest>>

BudgetNext ==
    \/ BudgetReset
    \/ \E w \in WorkerIds : SubmitSocial(w)
    \/ \E w \in WorkerIds : SocialCheck(w)
    \/ \E w \in WorkerIds : SocialDecrement(w)
    \/ WaitDone
    \/ WaitTimeout
    \/ \E w \in WorkerIds : StaleReturn(w)

BudgetSpec == BudgetInit /\ [][BudgetNext]_vars

----------------------------------------------------------------------------
(* Claims about the LLM-call budget *)

\* C35: the budget is reset to max_llm_calls_per_tick at the start of every
\* tick, never goes below 0, at most max_llm_calls_per_tick reply intents are
\* recommended between two resets, and with the budget exhausted the social
\* strategy recommends observe; also while a thread of a timed-out
\* interpretation is still running.
C35_BudgetNeverOverspent ==
    /\ [](llm_calls_remaining >= 0)
    /\ [](replies <= max_llm_calls_per_tick)
    /\ [][BudgetReset => llm_calls_remaining' = max_llm_calls_per_tick]_vars
    /\ [][\A w \in WorkerIds :
            (SocialCheck(w) /\ llm_calls_remaining <= 0) =>
                workers'[w].recommended = "observe"]_vars

====
